---- MODULE Spec2Model ----
(***************************************************************************)
(* Model of the Molecula portfolio bot: the ledger paginator               *)
(* (MoleculaService.iterateOperations), the cashflow builder and the       *)
(* aggregates of MoleculaService, the address registry (UsersService) and  *)
(* the metrics composer (PortfolioService.getStats).                       *)
(*                                                                         *)
(* Encodings.  Ledger ids are strings in the program; here they are        *)
(* naturals: Undefined (-1) is the JavaScript value undefined, EmptyId (0) *)
(* is the empty string (falsy), every other id is >= 1.  A bigint is an    *)
(* integer.  A decimal number produced by ethers.formatUnits is the exact  *)
(* pair [num, exp] standing for num / 10^exp.                              *)
(***************************************************************************)
EXTENDS Integers, Sequences, FiniteSets, TLC

\* ------------------------------------------------------------------
\* Values of the program's types
\* ------------------------------------------------------------------
Undefined == -1
EmptyId == 0

\* if (++safety > 100_000) break;
SAFETY_CAP == 100000

DepositTypes == {"deposit", "swapDeposit"}
WithdrawalTypes == {"withdrawal", "swapWithdrawal"}

\* String.prototype.toLowerCase on the address strings of the model
toLowerCase(s) ==
  CASE s = "0xAA" -> "0xaa"
    [] s = "0xBB" -> "0xbb"
    [] s = "0xMUSD" -> "0xmusd"
    [] OTHER -> s

Last(s) == s[Len(s)]

Range(s) == {s[i] : i \in 1..Len(s)}

\* ------------------------------------------------------------------
\* State
\* ------------------------------------------------------------------
VARIABLES
  ledger,        \* the upstream ledger: events in order of creation
  upstreamStrict,\* whether the upstream applies the address part of a filter
  itPc,          \* a stand-alone iterateOperations call: "idle" | "wait" | "done"
  itFilter,      \* its baseFilter
  itRequest,     \* the filter of the request posted last
  itBefore,      \* its cursor variable `before`
  itSafety,      \* its counter `safety`
  itReqs,        \* page requests issued by the call so far
  itPage,        \* the page received last
  itPageCursor,  \* the cursor that requested that page
  itYielded,     \* the operations yielded to the consumer so far
  userRows,      \* app_user rows: the chat ids that have one
  addrRows,      \* user_address rows of each chat, ordered by added_at
  decimalsEnv,   \* config MUSD_DECIMALS (Undefined when not set)
  tokenDecimals, \* what decimals() of the mUSD token answers on chain
  decimalsCache, \* PortfolioService.decimalsCache
  pc,            \* the getStats call: "idle" | "decimals" | "fetch" | "balances" | "done" | "failed"
  addresses,     \* its local `addresses`
  musdDec,       \* its local `musdDec`
  cf,            \* its call of cashflowsForAddresses
  net,           \* its call of sumNetDepositsForAddresses
  totalMusdBU,   \* its local `totalMusdBU`
  balLog,        \* the balanceOf lookups it made, with their outcomes
  result,        \* the stats object it returned (NoResult while there is none)
  io,            \* what the call has issued: page, balanceOf and decimals() requests, cache writes
  sawBadPage,    \* whether a ledger page request of the call ended in a failure
  xPc,           \* a computeApyFromFlows call: "idle" | "loop" | "done"
  xIn,           \* its arguments and the time of the call
  xFlows,        \* its local `flows`
  xRate,         \* `rate` of its xirr call
  xI,            \* the turns of the loop its xirr call has made
  xD,            \* `d` of the turn of the loop made last
  xRet,          \* what its xirr call returned
  xCalls,        \* how many times it called xirr
  xStats,        \* the stats object getStats returned after it
  dSec,          \* an instant in seconds, reported by two events of one page
  dFlows,        \* the cashflow entries made of the two events
  sIn,           \* a ledger and an address list
  sOut,          \* the three sums over them
  sPerm,         \* the same events and addresses in another order
  sOutPerm,      \* the three sums over these
  decimalsType,  \* the runtime type of what decimals() resolves to in the build
  gdPc,          \* a getDecimals call: "idle" | "query"
  gdToken,       \* its argument `token`
  gdLog,         \* the getDecimals calls that have ended, in order
  hPc,           \* the /stats handler: "idle" | "list" | "getStats" | "replyReturned" | "replyInTry" | "replyCaught" | "ended"
  hChatId,       \* its local `chatId`
  hAddrs,        \* its local `addrs`
  hStats,        \* what its getStats call came to (its local `s` when it returned)
  hReplies,      \* the replies it has sent through ctx.reply
  hThrown,       \* the error it rejected with ("none" while there is none)
  rLast,         \* the registry operation completed last, with the address rows before it
  gsPc,          \* overlapping getStats calls: of each caller "idle" | "query" | "rest" | "done" | "failed"
  cacheLog,      \* the writes of decimalsCache, in order
  regOp,         \* overlapping registry operations: of each, the call and how far it has come
  tg,            \* the TelegramService instances of the process: flags, how far bootstrap has come, the calls it made
  BOT_LAUNCHED   \* the module variable BOT_LAUNCHED

iterVars == <<itPc, itFilter, itRequest, itBefore, itSafety, itReqs, itPage, itPageCursor,
              itYielded>>
envVars == <<ledger, upstreamStrict>>
regVars == <<userRows, addrRows>>
cfgVars == <<decimalsEnv, tokenDecimals>>
callVars == <<pc, addresses, musdDec, cf, net, totalMusdBU, balLog, result, io,
              sawBadPage>>
xirrVars == <<xPc, xIn, xFlows, xRate, xI, xD, xRet, xCalls, xStats>>
dateVars == <<dSec, dFlows>>
sumVars == <<sIn, sOut, sPerm, sOutPerm>>
decVars == <<decimalsType, gdPc, gdToken, gdLog>>
cmdVars == <<hPc, hChatId, hAddrs, hStats, hReplies, hThrown>>
opVars == <<rLast>>
overlapVars == <<gsPc, cacheLog>>
workerVars == <<regOp>>
bootVars == <<tg, BOT_LAUNCHED>>
sideVars == <<xirrVars, dateVars, sumVars, decVars, cmdVars, opVars, overlapVars, workerVars, bootVars>>
mainVars == <<regVars, cfgVars, decimalsCache, callVars>>
statsVars == <<mainVars, sideVars>>
vars == <<envVars, iterVars, statsVars>>

\* ------------------------------------------------------------------
\* MoleculaService.iterateOperations: the loop body after a page arrived.
\* Every operation of a non-empty page is yielded before the cursor is
\* examined; `done` tells whether the loop breaks.
\* ------------------------------------------------------------------
IsFalsyId(id) == id = Undefined \/ id = EmptyId

\* the loop body without the safety counter's break
LoopAfterPageNoCap(before, safety, ops) ==
  IF Len(ops) = 0
    THEN [done |-> TRUE, before |-> before, safety |-> safety]
    ELSE LET last == Last(ops)._id IN
      IF IsFalsyId(last) \/ last = before
        THEN [done |-> TRUE, before |-> before, safety |-> safety]
        ELSE [done |-> FALSE, before |-> last, safety |-> safety + 1]

LoopAfterPage(before, safety, ops) ==
  IF Len(ops) = 0
    THEN [done |-> TRUE, before |-> before, safety |-> safety]
    ELSE LET last == Last(ops)._id IN
      IF IsFalsyId(last) \/ last = before
        THEN [done |-> TRUE, before |-> before, safety |-> safety]
        ELSE [done |-> safety + 1 > SAFETY_CAP, before |-> last,
              safety |-> safety + 1]

\* The older copy of the service (src/molecula/molecula.service.ts): the
\* cursor is overwritten unconditionally and nothing but an empty page
\* ends the loop.  ops[ops.length - 1]._id is read without a guard.
LoopAfterPageV1(before, safety, ops) ==
  IF Len(ops) = 0
    THEN [done |-> TRUE, before |-> before, safety |-> safety]
    ELSE [done |-> FALSE, before |-> Last(ops)._id, safety |-> safety]

\* ------------------------------------------------------------------
\* The upstream ledger service (tokenOperations query)
\* ------------------------------------------------------------------
\* a request that asks for the oldest events first
MkRequestAsc(filter, pageSize, before) ==
  [field |-> filter.field, addr |-> filter.addr, type |-> filter.type,
   order |-> "asc", limit |-> pageSize, before |-> before]

\* const filter = { ...baseFilter, order: 'desc', limit: pageSize, before }
MkRequest(filter, pageSize, before) ==
  [field |-> filter.field, addr |-> filter.addr, type |-> filter.type,
   order |-> "desc", limit |-> pageSize, before |-> before]

\* the party of an event that a filter on `to` / `from` looks at
Party(e, field) == IF field = "to" THEN e.to ELSE e.from

\* The upstream always applies the type part of a filter; the address part
\* it applies (case-insensitively) only when it is strict.
UpstreamMatches(e, req, strict) ==
  /\ e.type \in req.type
  /\ strict => toLowerCase(Party(e, req.field)) = toLowerCase(req.addr)

Reverse(s) == [i \in 1..Len(s) |-> s[Len(s) + 1 - i]]

Take(s, n) == IF Len(s) <= n THEN s ELSE SubSeq(s, 1, n)

\* A well-behaved answer: at most `limit` matching events strictly older
\* than the cursor, in the requested order.
UpstreamPage(led, req, strict) ==
  LET older == SelectSeq(led, LAMBDA e :
                 /\ UpstreamMatches(e, req, strict)
                 /\ (req.before = Undefined \/ e._id < req.before))
  IN Take(IF req.order = "desc" THEN Reverse(older) ELSE older, req.limit)

\* ------------------------------------------------------------------
\* Stand-alone call of iterateOperations
\* ------------------------------------------------------------------
\* pageSize of the calls of the model (the program passes 1000)
PageSize == 2

NoFilter == [field |-> "none", addr |-> "", type |-> {}]

InitIter ==
  /\ itPc = "idle"
  /\ itFilter = NoFilter
  /\ itRequest = MkRequest(NoFilter, PageSize, Undefined)
  /\ itBefore = Undefined
  /\ itSafety = 0
  /\ itReqs = 0
  /\ itPage = <<>>
  /\ itPageCursor = Undefined
  /\ itYielded = <<>>

\* the call starts: before = undefined, safety = 0, first request posted
IterStart(filter) ==
  /\ itPc \in {"idle", "done"}
  /\ itPc' = "wait"
  /\ itFilter' = filter
  /\ itRequest' = MkRequest(filter, PageSize, Undefined)
  /\ itBefore' = Undefined
  /\ itSafety' = 0
  /\ itReqs' = 1
  /\ itPage' = <<>>
  /\ itPageCursor' = Undefined
  /\ itYielded' = <<>>

\* the awaited post() resolves with `ops`: the loop body runs up to the
\* next post() or to the end of the generator
IterReceiveWith(ops, r) ==
  /\ itPc = "wait"
  /\ itPage' = ops
  /\ itPageCursor' = itRequest.before
  /\ itBefore' = r.before
  /\ itSafety' = r.safety
  /\ itPc' = IF r.done THEN "done" ELSE "wait"
  /\ itReqs' = IF r.done THEN itReqs ELSE itReqs + 1
  /\ itRequest' = IF r.done THEN itRequest
                            ELSE MkRequest(itFilter, PageSize, r.before)
  /\ UNCHANGED itFilter

IterReceive(ops) == IterReceiveWith(ops, LoopAfterPage(itBefore, itSafety, ops))

IterReceiveV1(ops) ==
  IterReceiveWith(ops, LoopAfterPageV1(itBefore, itSafety, ops))

\* ------------------------------------------------------------------
\* The response of the GraphQL endpoint and MoleculaService.post
\* ------------------------------------------------------------------
OkResponse(ops) == [ok |-> TRUE, errors |-> 0, hasData |-> TRUE, ops |-> ops]

\* a non-success HTTP status, a GraphQL error payload, a reply without data
FailingResponses ==
  { [ok |-> FALSE, errors |-> 0, hasData |-> FALSE, ops |-> <<>>],
    [ok |-> TRUE, errors |-> 1, hasData |-> FALSE, ops |-> <<>>],
    [ok |-> TRUE, errors |-> 0, hasData |-> FALSE, ops |-> <<>>] }

IsFailing(res) == ~res.ok \/ res.errors > 0 \/ ~res.hasData

\* post() that takes whatever came back for data
postUnchecked(res) == [throw |-> FALSE, ops |-> res.ops]

\* post(): throws on !res.ok, on json.errors?.length and on !json.data;
\* otherwise returns json.data (data.tokenOperations ?? [])
post(res) ==
  IF ~res.ok THEN [throw |-> TRUE, ops |-> <<>>]
  ELSE IF res.errors > 0 THEN [throw |-> TRUE, ops |-> <<>>]
  ELSE IF ~res.hasData THEN [throw |-> TRUE, ops |-> <<>>]
  ELSE [throw |-> FALSE, ops |-> res.ops]

\* ------------------------------------------------------------------
\* MoleculaService: parseBU, toDate, the cashflow builder, the sums
\* ------------------------------------------------------------------
\* the decimal strings of the model that BigInt() accepts; any other
\* string makes BigInt() throw a SyntaxError
IsBigIntLiteral(v) == v \in {"0", "50", "200", "300", "1000"}

BigInt(v) ==
  CASE v = "0" -> 0
    [] v = "50" -> 50
    [] v = "200" -> 200
    [] v = "300" -> 300
    [] v = "1000" -> 1000

\* a parseBU that counts a string BigInt rejects as 1
parseBULoose(v) == IF IsBigIntLiteral(v) THEN BigInt(v) ELSE 1

\* try { return BigInt(v) } catch { warn; return 0n }
parseBU(v) == IF IsBigIntLiteral(v) THEN BigInt(v) ELSE 0

\* created > 1e12 ? created : created * 1000.  The threshold and the
\* timestamps of the model are the program's divided by 10^7, so that
\* they fit the integers of the model checker.
MS_THRESHOLD == 100000

\* a toDate that takes every value as milliseconds
toDateRaw(created) == created

toDate(created) == IF created > MS_THRESHOLD THEN created ELSE created * 1000

\* Array.prototype.sort((a, b) => a.date - b.date): a stable sort by date
RECURSIVE InsertByDate(_, _)
InsertByDate(s, x) ==
  IF s = <<>> THEN <<x>>
  ELSE IF Last(s).date <= x.date THEN Append(s, x)
  ELSE Append(InsertByDate(SubSeq(s, 1, Len(s) - 1), x), Last(s))

\* a sort that is left out
notSorted(s) == s

RECURSIVE sortByDate(_)
sortByDate(s) ==
  IF s = <<>> THEN <<>>
  ELSE InsertByDate(sortByDate(SubSeq(s, 1, Len(s) - 1)), Last(s))

\* the sign of a cashflow: deposits negative, withdrawals positive
signedAmountFlipped(kind, v) == IF kind = "dep" THEN v ELSE -v

signedAmount(kind, v) == IF kind = "dep" THEN -v ELSE v

\* op.to?.toLowerCase() === addr  /  op.from?.toLowerCase() === addr
sideMatches(op, kind, addr) ==
  IF kind = "dep" THEN toLowerCase(op.to) = addr
                  ELSE toLowerCase(op.from) = addr

\* the body of the two `for await` loops of cashflowsForAddress, run over
\* the operations of one page.  An entry also remembers the operation it
\* comes from and the address it was built for (not program state).
RECURSIVE pushFlows(_, _, _, _)
pushFlows(flows, ops, kind, addr) ==
  IF ops = <<>> THEN flows
  ELSE LET op == Head(ops)
           v == parseBU(op.value)
           next == IF sideMatches(op, kind, addr) /\ v # 0
                     THEN Append(flows, [date |-> toDate(op.created),
                                         amountBU |-> signedAmount(kind, v),
                                         op |-> op, addr |-> addr])
                     ELSE flows
       IN pushFlows(next, Tail(ops), kind, addr)

\* a loop body that counts the first operation of a page only
addValuesFirstOnly(sum, ops, kind, addr) ==
  IF ops = <<>> THEN sum
  ELSE IF sideMatches(Head(ops), kind, addr)
    THEN sum + parseBU(Head(ops).value)
  ELSE sum

\* the body of the `for await` loop of sumGrossDepositsForAddress /
\* sumGrossWithdrawalsForAddress, run over the operations of one page
RECURSIVE addValues(_, _, _, _)
addValues(sum, ops, kind, addr) ==
  IF ops = <<>> THEN sum
  ELSE LET op == Head(ops) IN
       addValues(IF sideMatches(op, kind, addr) THEN sum + parseBU(op.value)
                                                ELSE sum,
                 Tail(ops), kind, addr)

\* the base filter of the deposit query and of the withdrawal query
filterOf(kind, addr) ==
  IF kind = "dep" THEN [field |-> "to", addr |-> addr, type |-> DepositTypes]
                  ELSE [field |-> "from", addr |-> addr, type |-> WithdrawalTypes]

\* sumNetDepositsForAddress: return d - w
netOfGrossOnly(d, w) == d

netOf(d, w) == d - w

\* ------------------------------------------------------------------
\* A running iterateOperations generator inside a service method
\* ------------------------------------------------------------------
\* the generator right after its first post(): live, request in flight
newIter(filter) ==
  [live |-> TRUE, req |-> MkRequest(filter, PageSize, Undefined),
   before |-> Undefined, safety |-> 0]

NoIter == [live |-> FALSE, req |-> MkRequest(NoFilter, PageSize, Undefined),
           before |-> Undefined, safety |-> 0]

\* the generator after the page `ops` arrived
advanceIter(it, ops) ==
  LET r == LoopAfterPage(it.before, it.safety, ops) IN
  [live |-> ~r.done,
   req |-> IF r.done THEN it.req
           ELSE [it.req EXCEPT !.before = r.before],
   before |-> r.before, safety |-> r.safety]

\* ------------------------------------------------------------------
\* PortfolioService: decimal conversion, balanceOfBU, computeApyFromFlows
\* ------------------------------------------------------------------
RECURSIVE Pow10(_)
Pow10(n) == IF n = 0 THEN 1 ELSE 10 * Pow10(n - 1)

\* a decimal without trailing zeros in its fraction
RECURSIVE Normalize(_)
Normalize(d) ==
  IF d.exp > 0 /\ d.num % 10 = 0
    THEN Normalize([num |-> d.num \div 10, exp |-> d.exp - 1])
    ELSE d

\* Number(ethers.formatUnits(units, decimals)), taken as exact
toNumber(units, decimals) == Normalize([num |-> units, exp |-> decimals])

Max(a, b) == IF a >= b THEN a ELSE b

\* a - b on decimals, taken as exact
Minus(a, b) ==
  IF b.num = 0 THEN a
  ELSE IF a.num = 0 THEN [num |-> -b.num, exp |-> b.exp]
  ELSE LET e == Max(a.exp, b.exp) IN
    Normalize([num |-> a.num * Pow10(e - a.exp) - b.num * Pow10(e - b.exp),
               exp |-> e])

\* Number(x.toFixed(10))
FIXED_DIGITS == 10

Abs(n) == IF n < 0 THEN -n ELSE n
Sign(n) == IF n < 0 THEN -1 ELSE 1

toFixed10(d) ==
  IF d.exp <= FIXED_DIGITS THEN d
  ELSE LET scale == Pow10(d.exp - FIXED_DIGITS)
           q == (2 * Abs(d.num) + scale) \div (2 * scale)
       IN Normalize([num |-> Sign(d.num) * q, exp |-> FIXED_DIGITS])

Zero == [num |-> 0, exp |-> 0]

\* the outcome of one balanceOf call: the balance, or an exception
BalanceAnswers == {0, 950}
BalanceOutcomes ==
  {[throw |-> FALSE, value |-> b] : b \in BalanceAnswers}
  \cup {[throw |-> TRUE, value |-> 950]}

\* balanceOfBU that lets the value through although the call failed
balanceOfBUNoCatch(outcome) == outcome.value

\* balanceOfBU: try { return await balanceOf(owner) } catch { return 0n }
balanceOfBU(outcome) == IF outcome.throw THEN 0 ELSE outcome.value

\* what xirr() may return: null (no convergence), a non-finite number, or
\* a finite rate (in basis points)
XirrOutcomes ==
  { [kind |-> "null", rate |-> 0], [kind |-> "nonfinite", rate |-> 0],
    [kind |-> "rate", rate |-> 1200] }

\* whether computeApyFromFlows reaches the solver: flowsBU is not empty and
\* the series with the terminal entry has an outflow and an inflow
solverRuns(flowsBU, currentBalanceBU) ==
  /\ Len(flowsBU) > 0
  /\ \E i \in 1..Len(flowsBU) : flowsBU[i].amountBU < 0
  /\ \/ \E i \in 1..Len(flowsBU) : flowsBU[i].amountBU > 0
     \/ currentBalanceBU > 0

\* computeApyFromFlows, given what the solver returns when it runs
computeApyFromFlows(flowsBU, currentBalanceBU, irr) ==
  IF ~solverRuns(flowsBU, currentBalanceBU) THEN 0
  ELSE IF irr.kind # "rate" THEN 0
  ELSE irr.rate

\* !addresses.length
isEmptyNever(list) == FALSE

isEmpty(list) == Len(list) = 0

\* ------------------------------------------------------------------
\* Natural numbers of any size: little-endian sequences of limbs in
\* base 2^14, without leading zero limbs (zero is <<>>)
\* ------------------------------------------------------------------
LIMB_BITS == 14
BASE == 16384

RECURSIVE Pow2(_)
Pow2(k) == IF k = 0 THEN 1 ELSE 2 * Pow2(k - 1)

bnLimb(a, i) == IF i <= Len(a) THEN a[i] ELSE 0

RECURSIVE bnNorm(_)
bnNorm(a) ==
  IF a = <<>> THEN a
  ELSE IF a[Len(a)] = 0 THEN bnNorm(SubSeq(a, 1, Len(a) - 1))
  ELSE a

RECURSIVE bnOfInt(_)
bnOfInt(n) == IF n = 0 THEN <<>> ELSE <<n % BASE>> \o bnOfInt(n \div BASE)

RECURSIVE bnAddFrom(_, _, _, _)
bnAddFrom(a, b, i, c) ==
  IF i > Len(a) /\ i > Len(b) THEN (IF c = 0 THEN <<>> ELSE <<c>>)
  ELSE LET s == bnLimb(a, i) + bnLimb(b, i) + c
       IN <<s % BASE>> \o bnAddFrom(a, b, i + 1, s \div BASE)

bnAdd(a, b) == bnAddFrom(a, b, 1, 0)

RECURSIVE bnSubFrom(_, _, _, _)
bnSubFrom(a, b, i, c) ==
  IF i > Len(a) THEN <<>>
  ELSE LET d == a[i] - bnLimb(b, i) - c
       IN IF d < 0 THEN <<d + BASE>> \o bnSubFrom(a, b, i + 1, 1)
                   ELSE <<d>> \o bnSubFrom(a, b, i + 1, 0)

\* a - b for a >= b
bnSub(a, b) == bnNorm(bnSubFrom(a, b, 1, 0))

RECURSIVE bnCmpAt(_, _, _)
bnCmpAt(a, b, i) ==
  IF i = 0 THEN 0
  ELSE IF a[i] > b[i] THEN 1
  ELSE IF a[i] < b[i] THEN -1
  ELSE bnCmpAt(a, b, i - 1)

\* -1, 0, 1 as a < b, a = b, a > b
bnCmp(a, b) ==
  IF Len(a) > Len(b) THEN 1
  ELSE IF Len(a) < Len(b) THEN -1
  ELSE bnCmpAt(a, b, Len(a))

RECURSIVE bnMulSmallFrom(_, _, _, _)
bnMulSmallFrom(a, k, i, c) ==
  IF i > Len(a) THEN (IF c = 0 THEN <<>> ELSE <<c>>)
  ELSE LET p == a[i] * k + c
       IN <<p % BASE>> \o bnMulSmallFrom(a, k, i + 1, p \div BASE)

\* a * k for 0 <= k < BASE
bnMulSmall(a, k) == IF k = 0 THEN <<>> ELSE bnMulSmallFrom(a, k, 1, 0)

bnShiftLimbs(a, n) == IF a = <<>> THEN <<>> ELSE [i \in 1..n |-> 0] \o a

RECURSIVE bnMulFrom(_, _, _)
bnMulFrom(a, b, j) ==
  IF j > Len(b) THEN <<>>
  ELSE bnAdd(bnShiftLimbs(bnMulSmall(a, b[j]), j - 1), bnMulFrom(a, b, j + 1))

bnMul(a, b) == bnMulFrom(a, b, 1)

\* a * 2^k
bnShl(a, k) ==
  bnShiftLimbs(bnMulSmall(a, Pow2(k % LIMB_BITS)), k \div LIMB_BITS)

\* a \div 2^k
bnShr(a, k) ==
  LET q == k \div LIMB_BITS
      r == k % LIMB_BITS
      n == Len(a) - q
  IN IF n <= 0 THEN <<>>
     ELSE bnNorm([i \in 1..n |->
            (a[q + i] \div Pow2(r))
            + (bnLimb(a, q + i + 1) % Pow2(r)) * Pow2(LIMB_BITS - r)])

\* whether a % 2^k is not zero
bnLowBits(a, k) ==
  LET q == k \div LIMB_BITS
      r == k % LIMB_BITS
  IN \/ \E i \in 1..q : bnLimb(a, i) # 0
     \/ bnLimb(a, q + 1) % Pow2(r) # 0

\* bit i (from 0) of a
bnBit(a, i) ==
  (bnLimb(a, i \div LIMB_BITS + 1) \div Pow2(i % LIMB_BITS)) % 2

RECURSIVE BitLen(_)
BitLen(n) == IF n = 0 THEN 0 ELSE 1 + BitLen(n \div 2)

bnBitLen(a) ==
  IF a = <<>> THEN 0 ELSE LIMB_BITS * (Len(a) - 1) + BitLen(a[Len(a)])

bnIsOdd(a) == a # <<>> /\ a[1] % 2 = 1

\* the largest qd <= est with b * qd <= a
RECURSIVE bnFit(_, _, _)
bnFit(a, b, est) ==
  IF bnCmp(bnMulSmall(b, est), a) > 0 THEN bnFit(a, b, est - 1) ELSE est

\* long division of a by b, one limb of a at a time from the top, with q
\* the quotient and r the remainder so far, r < b; the top limb of b is
\* at least BASE / 2, which keeps the estimate of a limb of the quotient
\* within 2 of it
RECURSIVE bnDivLimbs(_, _, _, _, _)

\* the limb qd of the quotient is known: it is put before q and taken
\* out of the remainder r2
bnDivDigit(a, b, j, q, r2, qd) ==
  bnDivLimbs(a, b, j - 1, <<qd>> \o q, bnSub(r2, bnMulSmall(b, qd)))

\* the limb of the quotient from its estimate by the top limbs
bnDivEstimate(a, b, j, q, r2, est) ==
  bnDivDigit(a, b, j, q, r2, bnFit(r2, b, IF est < BASE THEN est ELSE BASE - 1))

\* one limb of a has been brought down into the remainder r2
bnDivLimb(a, b, j, q, r2) ==
  bnDivEstimate(a, b, j, q, r2,
    (bnLimb(r2, Len(b) + 1) * BASE + bnLimb(r2, Len(b))) \div b[Len(b)])

bnDivLimbs(a, b, j, q, r) ==
  IF j = 0 \/ bnCmp(r, b) >= 0 THEN [q |-> bnNorm(q), r |-> r]
  ELSE bnDivLimb(a, b, j, q, bnNorm(<<a[j]>> \o r))

bnUnshift(st, s) == [q |-> st.q, r |-> bnShr(st.r, s)]

bnDivShifted(a2, b2, s) ==
  bnUnshift(bnDivLimbs(a2, b2, Len(a2), <<>>, <<>>), s)

bnDivBy(a, b, s) == bnDivShifted(bnShl(a, s), bnShl(b, s), s)

\* [q, r] with a = q * b + r and r < b, for b > 0
bnDivMod(a, b) == bnDivBy(a, b, LIMB_BITS - BitLen(b[Len(b)]))

\* the integer square root, two bits of a at a time from the top:
\* [q, r] with a = q * q + r and r <= 2 * q
RECURSIVE bnSqrtBits(_, _, _, _)

\* the next bit of the root is 1 when the trial subtrahend t = 4q + 1
\* fits into the remainder r2
bnSqrtBit(limb, k, q2, r2, t) ==
  IF bnCmp(r2, t) >= 0
    THEN bnSqrtBits(limb, k - 1, bnAdd(q2, <<1>>), bnSub(r2, t))
    ELSE bnSqrtBits(limb, k - 1, q2, r2)

bnSqrtBits(limb, k, q, r) ==
  IF k < 0 THEN [q |-> q, r |-> r]
  ELSE bnSqrtBit(limb, k, bnMulSmall(q, 2),
                 bnAdd(bnMulSmall(r, 4), bnOfInt((limb \div Pow2(2 * k)) % 4)),
                 bnAdd(bnMulSmall(q, 4), <<1>>))

bnSqrtLimb(a, j, st) == bnSqrtBits(a[j], LIMB_BITS \div 2 - 1, st.q, st.r)

RECURSIVE bnSqrtLimbs(_, _, _)
bnSqrtLimbs(a, j, st) ==
  IF j = 0 \/ bnCmp(st.r, bnMulSmall(st.q, 2)) > 0 THEN st
  ELSE bnSqrtLimbs(a, j - 1, bnSqrtLimb(a, j, st))

bnSqrt(a) == bnSqrtLimbs(a, Len(a), [q |-> <<>>, r |-> <<>>])

\* ------------------------------------------------------------------
\* The Number type: IEEE 754 binary64, round to nearest, ties to even.
\* A finite number is (-1)^s * m * 2^e with m < 2^53; m has 53 bits unless
\* e = MIN_EXP (a subnormal) or m = 0 (then e = 0).
\* ------------------------------------------------------------------
MANT_BITS == 53
MIN_EXP == -1074
MAX_EXP == 971

Min(a, b) == IF a <= b THEN a ELSE b

NaN == [k |-> "nan", s |-> 0, m |-> <<>>, e |-> 0]
fInf(s) == [k |-> "inf", s |-> s, m |-> <<>>, e |-> 0]
fZero(s) == [k |-> "fin", s |-> s, m |-> <<>>, e |-> 0]

isNaN(x) == x.k = "nan"
isFinite(x) == x.k = "fin"
fIsZero(x) == x.k = "fin" /\ x.m = <<>>
Xor(a, b) == IF a = b THEN 0 ELSE 1

\* the finite number of mantissa m2 and exponent e2, or what it rounds to
\* beyond the range
fPack(s, m2, e2) ==
  IF m2 = <<>> THEN fZero(s)
  ELSE IF e2 > MAX_EXP THEN fInf(s)
  ELSE [k |-> "fin", s |-> s, m |-> m2, e |-> e2]

\* the rounded mantissa q1 may have grown to 54 bits
fCarry(s, q1, e2) ==
  IF bnBitLen(q1) > MANT_BITS THEN fPack(s, bnShr(q1, 1), e2 + 1)
  ELSE fPack(s, q1, e2)

\* m loses its `shift` low bits, q being what is left: round to nearest,
\* ties to even
fNearest(s, m, shift, sticky, q, e2) ==
  fCarry(s,
         IF /\ bnBit(m, shift - 1) = 1
            /\ (bnLowBits(m, shift - 1) \/ sticky \/ bnIsOdd(q))
           THEN bnAdd(q, <<1>>) ELSE q,
         e2)

\* m has room for l more low bits
fWiden(s, m, e, l) ==
  IF e - l > MAX_EXP THEN fInf(s)
  ELSE [k |-> "fin", s |-> s, m |-> bnShl(m, l), e |-> e - l]

fRoundBy(s, m, e, sticky, shift) ==
  IF shift <= 0
    THEN fWiden(s, m, e, Min(MANT_BITS - bnBitLen(m), e - MIN_EXP))
    ELSE fNearest(s, m, shift, sticky, bnShr(m, shift), e + shift)

\* the number nearest to (-1)^s * (m + t) * 2^e, where 0 < t < 1 when
\* `sticky` and t = 0 otherwise (when `sticky`, m has more than 54 bits)
fRound(s, m, e, sticky) ==
  IF m = <<>> THEN fZero(s)
  ELSE fRoundBy(s, m, e, sticky, Max(bnBitLen(m) - MANT_BITS, MIN_EXP - e))

\* an integer of the model as a Number
fromInt(n) == fRound(IF n < 0 THEN 1 ELSE 0, bnOfInt(Abs(n)), 0, FALSE)

fNeg(x) == IF isNaN(x) THEN x ELSE [x EXCEPT !.s = 1 - x.s]
fAbs(x) == IF isNaN(x) THEN x ELSE [x EXCEPT !.s = 0]

\* -1, 0, 1 as |x| < |y|, |x| = |y|, |x| > |y|, for finite x and y
fCmpAbs(x, y) ==
  IF x.m = <<>> \/ y.m = <<>>
    THEN (IF x.m = y.m THEN 0 ELSE IF x.m = <<>> THEN -1 ELSE 1)
  ELSE IF x.e > y.e THEN 1
  ELSE IF x.e < y.e THEN -1
  ELSE bnCmp(x.m, y.m)

\* x < y for x and y of one sign s, neither NaN nor infinite
fLtSigned(s, c) == IF s = 0 THEN c < 0 ELSE c > 0

\* x < y (false when either is NaN)
fLt(x, y) ==
  IF isNaN(x) \/ isNaN(y) THEN FALSE
  ELSE IF x.k = "inf" THEN x.s = 1 /\ ~(y.k = "inf" /\ y.s = 1)
  ELSE IF y.k = "inf" THEN y.s = 0
  ELSE IF fIsZero(x) /\ fIsZero(y) THEN FALSE
  ELSE IF x.s # y.s THEN x.s = 1
  ELSE fLtSigned(x.s, fCmpAbs(x, y))

\* the distance of exponents beyond which the smaller of two numbers is
\* less than a quarter of the last bit of the larger
FAR == 56

\* big + small with the mantissa bm of big at the exponent of small
fAddAligned(big, small, bm) ==
  IF big.s = small.s
    THEN fRound(big.s, bnAdd(bm, small.m), small.e, FALSE)
  ELSE IF bm = small.m THEN fZero(0)
  ELSE fRound(big.s, bnSub(bm, small.m), small.e, FALSE)

\* big + small for |big| >= |small|, d the distance of their exponents
fAddOrdered(big, small, d) ==
  IF d > FAR
    THEN fRound(big.s,
                IF big.s = small.s THEN bnShl(big.m, 2)
                ELSE bnSub(bnShl(big.m, 2), <<1>>),
                big.e - 2, TRUE)
    ELSE fAddAligned(big, small, bnShl(big.m, d))

fAddBySize(x, y, c) ==
  IF c >= 0 THEN fAddOrdered(x, y, x.e - y.e) ELSE fAddOrdered(y, x, y.e - x.e)

\* x + y for finite x and y, not zero
fAddFinite(x, y) == fAddBySize(x, y, fCmpAbs(x, y))

\* x + y
fAdd(x, y) ==
  IF isNaN(x) \/ isNaN(y) THEN NaN
  ELSE IF x.k = "inf"
    THEN (IF y.k = "inf" /\ y.s # x.s THEN NaN ELSE x)
  ELSE IF y.k = "inf" THEN y
  ELSE IF fIsZero(x)
    THEN (IF fIsZero(y) THEN fZero(IF x.s = 1 /\ y.s = 1 THEN 1 ELSE 0) ELSE y)
  ELSE IF fIsZero(y) THEN x
  ELSE fAddFinite(x, y)

\* x - y
fSub(x, y) == fAdd(x, fNeg(y))

\* x * y
fMul(x, y) ==
  IF isNaN(x) \/ isNaN(y) THEN NaN
  ELSE IF x.k = "inf" \/ y.k = "inf"
    THEN (IF fIsZero(x) \/ fIsZero(y) THEN NaN ELSE fInf(Xor(x.s, y.s)))
  ELSE IF fIsZero(x) \/ fIsZero(y) THEN fZero(Xor(x.s, y.s))
  ELSE fRound(Xor(x.s, y.s), bnMul(x.m, y.m), x.e + y.e, FALSE)

fDivRounded(s, qr, e) == fRound(s, qr.q, e, qr.r # <<>>)

\* x / y for finite x and y, not zero, with x scaled by 2^shift
fDivScaled(x, y, s, shift) ==
  fDivRounded(s, bnDivMod(bnShl(x.m, shift), y.m), x.e - y.e - shift)

fDivSigned(x, y, s) ==
  IF x.k = "inf" THEN (IF y.k = "inf" THEN NaN ELSE fInf(s))
  ELSE IF y.k = "inf" THEN fZero(s)
  ELSE IF fIsZero(y) THEN (IF fIsZero(x) THEN NaN ELSE fInf(s))
  ELSE IF fIsZero(x) THEN fZero(s)
  ELSE fDivScaled(x, y, s, MANT_BITS + 2 + bnBitLen(y.m) - bnBitLen(x.m))

\* x / y
fDiv(x, y) ==
  IF isNaN(x) \/ isNaN(y) THEN NaN ELSE fDivSigned(x, y, Xor(x.s, y.s))

fSqrtRounded(qr, e) == fRound(0, qr.q, e, qr.r # <<>>)

fSqrtScaled(x, shift) ==
  fSqrtRounded(bnSqrt(bnShl(x.m, shift)), (x.e - shift) \div 2)

\* the root of a finite x > 0, scaled by an even power of two from k0 on
fSqrtFrom(x, k0) ==
  fSqrtScaled(x, IF (x.e - k0) % 2 = 0 THEN k0 ELSE k0 + 1)

\* Math.sqrt(x)
fSqrt(x) ==
  IF isNaN(x) THEN NaN
  ELSE IF fIsZero(x) THEN x
  ELSE IF x.s = 1 THEN NaN
  ELSE IF x.k = "inf" THEN x
  ELSE fSqrtFrom(x, 2 * MANT_BITS + 2 - bnBitLen(x.m))

\* ------------------------------------------------------------------
\* The XIRR utilities of portfolio.service.ts: yearFraction, xnpv, xirr
\* ------------------------------------------------------------------
ONE == fromInt(1)

\* 1000 * 60 * 60 * 24 * 365.2425
YEAR_MS ==
  fMul(fMul(fMul(fMul(fromInt(1000), fromInt(60)), fromInt(60)), fromInt(24)),
       fDiv(fromInt(3652425), fromInt(10000)))

\* A Date of the model is a whole number of half years (15778476000 ms)
\* since the epoch; getTime() is its milliseconds.
getTime(date) == fMul(fromInt(date), fMul(fromInt(15778476), fromInt(1000)))

\* (b.getTime() - a.getTime()) / (1000 * 60 * 60 * 24 * 365.2425)
yearFraction(a, b) == fDiv(fSub(getTime(b), getTime(a)), YEAR_MS)

fEq(x, y) == ~isNaN(x) /\ ~isNaN(y) /\ ~fLt(x, y) /\ ~fLt(y, x)

\* Math.pow as V8 computes it (fdlibm's pow): y = 0 gives 1, a NaN operand
\* NaN, y = 1 gives x, y = 2 gives x * x, y = 0.5 gives sqrt(x) for
\* x >= +0, and a finite x < 0 with y = 0.5 gives NaN.  The exponents of
\* the model are 0, 0.5, 1 and 2.
pow(x, y) ==
  CASE fIsZero(y) -> ONE
    [] ~fIsZero(y) /\ (isNaN(x) \/ isNaN(y)) -> NaN
    [] ~isNaN(x) /\ fEq(y, ONE) -> x
    [] ~isNaN(x) /\ fEq(y, fromInt(2)) -> fMul(x, x)
    [] ~isNaN(x) /\ fEq(y, fDiv(ONE, fromInt(2))) ->
         IF x.s = 0 THEN fSqrt(x)
         ELSE IF fIsZero(x) THEN fZero(0)
         ELSE IF x.k = "inf" THEN fInf(0)
         ELSE NaN

\* the loop of xnpv from flow i on: sum += cf.amount / Math.pow(1 + rate, dt)
RECURSIVE xnpvFrom(_, _, _, _)
xnpvFrom(rate, flows, i, sum) ==
  IF i > Len(flows) THEN sum
  ELSE LET dt == yearFraction(flows[1].date, flows[i].date)
       IN xnpvFrom(rate, flows, i + 1,
                   fAdd(sum, fDiv(flows[i].amount, pow(fAdd(ONE, rate), dt))))

xnpv(rate, flows) ==
  IF Len(flows) = 0 THEN fZero(0) ELSE xnpvFrom(rate, flows, 1, fZero(0))

\* const maxIter = 100
MAX_ITER == 100

\* const tol = 1e-7
TOL == fDiv(ONE, fromInt(10000000))

\* const h = 1e-6
STEP_H == fDiv(ONE, fromInt(1000000))

\* 1e-12 in Math.abs(d) < 1e-12
DERIV_MIN == fDiv(ONE, fMul(fromInt(1000000), fromInt(1000000)))

\* xirr(flows, 0.2)
GUESS == fDiv(fromInt(2), fromInt(10))

\* the derivative test of xirr with a test for a finite value added
degenerateOrNonFinite(d) == ~isFinite(d) \/ fLt(fAbs(d), DERIV_MIN)

\* Math.abs(d) < 1e-12
degenerate(d) == fLt(fAbs(d), DERIV_MIN)

\* a convergence test that any step passes
convergedAlways(newRate, rate) == TRUE

\* Math.abs(newRate - rate) < tol
converged(newRate, rate) == fLt(fAbs(fSub(newRate, rate)), TOL)

\* the turn ends: "break", "return" with newRate, or "next" with
\* rate = newRate
xirrEnd(rate, d, newRate) ==
  IF degenerate(d) THEN [out |-> "break", d |-> d, rate |-> rate]
  ELSE IF converged(newRate, rate)
    THEN [out |-> "return", d |-> d, rate |-> newRate]
  ELSE [out |-> "next", d |-> d, rate |-> newRate]

\* const newRate = rate - f / d
xirrNewton(rate, f, d) == xirrEnd(rate, d, fSub(rate, fDiv(f, d)))

\* const d = (f1 - f) / h
xirrDerivative(rate, f, f1) == xirrNewton(rate, f, fDiv(fSub(f1, f), STEP_H))

\* one turn of the loop of xirr from `rate`: the derivative estimated and
\* how the turn ends
xirrTurn(rate, flows) ==
  xirrDerivative(rate, xnpv(rate, flows), xnpv(fAdd(rate, STEP_H), flows))

\* 10^n as a Number (exact up to n = 22)
RECURSIVE pow10(_)
pow10(n) == IF n = 0 THEN ONE ELSE fMul(fromInt(10), pow10(n - 1))

\* Number(ethers.formatUnits(units, decimals)): the Number nearest to
\* units / 10^decimals
toNumber64(units, decimals) == fDiv(fromInt(units), pow10(decimals))

\* computeApyFromFlows: flowsBU.map(...), then flows.push({ date: new
\* Date(), amount: toNumber(currentBalanceBU) })
seriesOf(flowsBU, currentBalanceBU, musdDecimals, now) ==
  [i \in 1..Len(flowsBU) |->
     [date |-> flowsBU[i].date,
      amount |-> toNumber64(flowsBU[i].amountBU, musdDecimals)]]
  \o <<[date |-> now, amount |-> toNumber64(currentBalanceBU, musdDecimals)]>>

\* flows.some((f) => f.amount < 0), flows.some((f) => f.amount > 0)
hasOut(flows) == \E i \in 1..Len(flows) : fLt(flows[i].amount, fZero(0))
hasIn(flows) == \E i \in 1..Len(flows) : fLt(fZero(0), flows[i].amount)

\* a precondition that asks for an outflow only
preconditionOutOnly(flowsBU, flows) == Len(flowsBU) > 0 /\ hasOut(flows)

\* computeApyFromFlows up to the call of xirr: whether it is reached
precondition(flowsBU, flows) ==
  Len(flowsBU) > 0 /\ hasOut(flows) /\ hasIn(flows)

\* null, as xirr returns it (it has no rate: NaN stands in its place)
NullRet == [kind |-> "null", rate |-> NaN]

\* an apy that passes on whatever the solver returned
apyUnchecked(irr) == irr.rate

\* if (irr === null || !isFinite(irr)) return 0; return irr
apyOf(irr) ==
  IF irr.kind = "null" \/ ~isFinite(irr.rate) THEN fZero(0) ELSE irr.rate

\* ------------------------------------------------------------------
\* The ledger of the model
\* ------------------------------------------------------------------
ZeroAddr == "0x00"

\* the events that get appended to the ledger (without their _id); `created`
\* is in seconds in some and in milliseconds in others
EventPool ==
  << [type |-> "deposit", from |-> ZeroAddr, to |-> "0xAA",
      value |-> "1000", created |-> 1000],
     [type |-> "withdrawal", from |-> "0xAA", to |-> ZeroAddr,
      value |-> "200", created |-> 1180000],
     [type |-> "swapDeposit", from |-> "0xAA", to |-> "0xbb",
      value |-> "300", created |-> 900],
     [type |-> "swapWithdrawal", from |-> "0xbb", to |-> "0xAA",
      value |-> "0", created |-> 1100000],
     [type |-> "deposit", from |-> ZeroAddr, to |-> "0xaa",
      value |-> "x", created |-> 1200],
     [type |-> "transfer", from |-> "0xAA", to |-> "0xbb",
      value |-> "50", created |-> 1300] >>

\* longest ledger of the model
MaxEvents == 3

WithId(shape, id) ==
  [_id |-> id, type |-> shape.type, from |-> shape.from, to |-> shape.to,
   value |-> shape.value, created |-> shape.created]

\* the upstream records a new operation: one of the pool, later in the pool
\* than those recorded before; its position in the pool is its _id, so
\* ids grow with recency
AppendEvent(k) ==
  /\ Len(ledger) < MaxEvents
  /\ IF ledger = <<>> THEN TRUE ELSE Last(ledger)._id < k
  /\ ledger' = Append(ledger, WithId(EventPool[k], k))
  /\ UNCHANGED upstreamStrict

\* ------------------------------------------------------------------
\* MoleculaService.cashflowsForAddresses and sumNetDepositsForAddresses
\* as they run inside getStats, one step per page that arrives
\* ------------------------------------------------------------------
CfOff == [i |-> 0, phase |-> "off", it |-> NoIter, flows |-> <<>>,
          parts |-> <<>>, all |-> <<>>]

\* cashflowsForAddresses up to its first await: the deposit query of the
\* first address is posted
startCashflows(addrs) ==
  [i |-> 1, phase |-> "dep",
   it |-> newIter(filterOf("dep", toLowerCase(addrs[1]))),
   flows |-> <<>>, parts |-> <<>>, all |-> <<>>]

\* a page of the running query arrives: the loop body runs over it; when
\* the deposit query ends the withdrawal query starts; when that ends the
\* address's flows are sorted and pushed to `all`; after the last address
\* `all` is sorted
cashflowsStep(c, addrs, ops) ==
  LET addr == toLowerCase(addrs[c.i])
      flows1 == pushFlows(c.flows, ops, c.phase, addr)
      it1 == advanceIter(c.it, ops)
  IN IF it1.live THEN [c EXCEPT !.it = it1, !.flows = flows1]
     ELSE IF c.phase = "dep"
       THEN [c EXCEPT !.phase = "wd", !.flows = flows1,
                      !.it = newIter(filterOf("wd", addr))]
     ELSE LET part == sortByDate(flows1)
              all1 == c.all \o part
          IN IF c.i < Len(addrs)
               THEN [i |-> c.i + 1, phase |-> "dep",
                     it |-> newIter(filterOf("dep", toLowerCase(addrs[c.i + 1]))),
                     flows |-> <<>>, parts |-> Append(c.parts, part),
                     all |-> all1]
               ELSE [i |-> c.i, phase |-> "done", it |-> NoIter,
                     flows |-> <<>>, parts |-> Append(c.parts, part),
                     all |-> sortByDate(all1)]

NetOff == [j |-> 0, dep |-> [it |-> NoIter, sum |-> 0],
           wd |-> [it |-> NoIter, sum |-> 0], total |-> 0, done |-> FALSE]

\* sumNetDepositsForAddress(a) up to its first await: both gross sums are
\* started, each posts its first query
startNetFor(a, j, total) ==
  [j |-> j,
   dep |-> [it |-> newIter(filterOf("dep", toLowerCase(a))), sum |-> 0],
   wd |-> [it |-> newIter(filterOf("wd", toLowerCase(a))), sum |-> 0],
   total |-> total, done |-> FALSE]

\* a page of the deposit sum (side = "dep") or of the withdrawal sum
\* (side = "wd") arrives; when both sums of the address are complete the
\* net of the address is added and the next address starts
netStep(n, addrs, side, ops) ==
  LET addr == toLowerCase(addrs[n.j])
      n1 == [n EXCEPT ![side] =
               [it |-> advanceIter(n[side].it, ops),
                sum |-> addValues(n[side].sum, ops, side, addr)]]
  IN IF n1.dep.it.live \/ n1.wd.it.live THEN n1
     ELSE LET total1 == n.total + netOf(n1.dep.sum, n1.wd.sum) IN
          IF n.j < Len(addrs)
            THEN startNetFor(addrs[n.j + 1], n.j + 1, total1)
            ELSE [n1 EXCEPT !.total = total1, !.done = TRUE]

\* page requests in flight in a state of the two calls
liveRequests(c, n) ==
  (IF c.it.live THEN 1 ELSE 0) + (IF n.dep.it.live THEN 1 ELSE 0)
  + (IF n.wd.it.live THEN 1 ELSE 0)

\* ------------------------------------------------------------------
\* UsersService
\* ------------------------------------------------------------------
Chats == {"c1"}
AddrStrings == {"0xAA", "0xaa", "0xbb"}

\* most address rows of one chat in the model
MaxAddrs == 2

\* ensureUser: the row of the chat is created when it is missing
ensureUser(rows, chat) == rows \cup {chat}

\* an insert that does not look for the row first
addAddressAlways(rows, a) == Append(rows, a)

\* addAddress: ensureUser, then insert unless the exact string is there
addAddress(rows, a) == IF a \in Range(rows) THEN rows ELSE Append(rows, a)

\* removeAddress: delete the rows with this exact string
removeAddress(rows, a) == SelectSeq(rows, LAMBDA x : x # a)

\* ------------------------------------------------------------------
\* PortfolioService.getStats
\* ------------------------------------------------------------------
MusdToken == "0xMUSD"
CacheKey == "0xmusd"

NoIo == [page |-> 0, balance |-> 0, decimals |-> 0, cacheWrites |-> 0]

ZeroStats == [deposit |-> Zero, balance |-> Zero, yieldValue |-> Zero, apy |-> 0]

CallIdle ==
  /\ pc = "idle"
  /\ addresses = <<>>
  /\ musdDec = 0
  /\ cf = CfOff
  /\ net = NetOff
  /\ totalMusdBU = 0
  /\ balLog = <<>>
  /\ result = <<>>
  /\ io = NoIo
  /\ sawBadPage = FALSE

\* the call is over (or none was made): the next operation may begin
Quiet == pc \in {"idle", "done", "failed"}

Forget ==
  /\ pc' = "idle"
  /\ addresses' = <<>>
  /\ musdDec' = 0
  /\ cf' = CfOff
  /\ net' = NetOff
  /\ totalMusdBU' = 0
  /\ balLog' = <<>>
  /\ result' = <<>>
  /\ io' = NoIo
  /\ sawBadPage' = FALSE

\* the stats object of getStats
statsWith(netDepositedBU, totalBU, dec, apy) ==
  LET deposited == toNumber(netDepositedBU, dec)
      balance == toNumber(totalBU, dec)
  IN [deposit |-> deposited, balance |-> balance,
      yieldValue |-> toFixed10(Minus(balance, deposited)),
      apy |-> apy]

\* the stats object of getStats, given what the solver returns when it runs
statsOf(netDepositedBU, totalBU, dec, flowsBU, irr) ==
  statsWith(netDepositedBU, totalBU, dec,
            computeApyFromFlows(flowsBU, totalBU, irr))

NullIrr == [kind |-> "null", rate |-> 0]

\* getStats from Promise.all([cashflowsForAddresses,
\* sumNetDepositsForAddresses]) on, with musdDec resolved: three page
\* requests are posted.  (For an empty list both calls complete without a
\* request, the balance loop has nothing to do and the stats object is
\* assembled at once.)
BeginFetch(addrs, dec, io0) ==
  /\ musdDec' = dec
  /\ IF Len(addrs) = 0
       THEN /\ pc' = "done"
            /\ cf' = [CfOff EXCEPT !.phase = "done"]
            /\ net' = [NetOff EXCEPT !.done = TRUE]
            /\ io' = io0
            /\ result' = <<statsOf(0, 0, dec, <<>>, NullIrr)>>
       ELSE /\ pc' = "fetch"
            /\ cf' = startCashflows(addrs)
            /\ net' = startNetFor(addrs[1], 1, 0)
            /\ io' = [io0 EXCEPT !.page = 3]
            /\ result' = <<>>

\* getStats up to its first pending network call: listAddresses (which
\* runs ensureUser), the short circuit on an empty list, getDecimals from
\* the override or the cache, else the decimals() query is sent
GetStatsStart(chat) ==
  /\ Quiet
  /\ userRows' = ensureUser(userRows, chat)
  /\ addresses' = addrRows[chat]
  /\ totalMusdBU' = 0
  /\ balLog' = <<>>
  /\ sawBadPage' = FALSE
  /\ UNCHANGED <<addrRows, cfgVars, decimalsCache, envVars, iterVars, sideVars>>
  /\ IF isEmpty(addrRows[chat])
       THEN /\ pc' = "done"
            /\ result' = <<ZeroStats>>
            /\ io' = NoIo
            /\ musdDec' = 0
            /\ cf' = CfOff
            /\ net' = NetOff
       ELSE IF decimalsEnv # Undefined
              THEN BeginFetch(addrRows[chat], decimalsEnv, NoIo)
            ELSE IF CacheKey \in DOMAIN decimalsCache
              THEN BeginFetch(addrRows[chat], decimalsCache[CacheKey], NoIo)
            ELSE /\ result' = <<>>
                 /\ pc' = "decimals"
                 /\ io' = [NoIo EXCEPT !.decimals = 1]
                 /\ musdDec' = 0
                 /\ cf' = CfOff
                 /\ net' = NetOff

\* decimals() answers: the value is cached and the fetches begin
DecimalsAnswer ==
  /\ pc = "decimals"
  /\ decimalsCache' = [k \in DOMAIN decimalsCache \cup {CacheKey} |->
                         IF k = CacheKey THEN tokenDecimals
                                         ELSE decimalsCache[k]]
  /\ BeginFetch(addresses, tokenDecimals, [io EXCEPT !.cacheWrites = @ + 1])
  /\ UNCHANGED <<regVars, cfgVars, addresses, totalMusdBU, balLog,
                 sawBadPage, envVars, iterVars, sideVars>>

\* getStats throws: nothing is returned, the pending work is dropped
Throw ==
  /\ pc' = "failed"
  /\ cf' = CfOff
  /\ net' = NetOff
  /\ UNCHANGED <<addresses, musdDec, totalMusdBU, balLog, result, io>>

\* decimals() fails: getDecimals throws, the cache is not written
DecimalsFails ==
  /\ pc = "decimals"
  /\ Throw
  /\ UNCHANGED <<regVars, cfgVars, decimalsCache, sawBadPage, envVars, iterVars, sideVars>>

\* a Promise.race in the place of Promise.all: the balance loop starts as
\* soon as one of the two calls is complete
AfterPageEither(c1, n1, newPosts) ==
  /\ cf' = c1
  /\ net' = n1
  /\ IF c1.phase = "done" \/ n1.done
       THEN /\ pc' = "balances"
            /\ io' = [io EXCEPT !.page = @ + newPosts, !.balance = 1]
       ELSE /\ pc' = "fetch"
            /\ io' = [io EXCEPT !.page = @ + newPosts]
  /\ UNCHANGED <<addresses, musdDec, totalMusdBU, balLog, result>>

\* Promise.all has resolved when both calls are complete: the balance
\* loop starts with the balanceOf query of the first address
AfterPage(c1, n1, newPosts) ==
  /\ cf' = c1
  /\ net' = n1
  /\ IF c1.phase = "done" /\ n1.done
       THEN /\ pc' = "balances"
            /\ io' = [io EXCEPT !.page = @ + newPosts, !.balance = 1]
       ELSE /\ pc' = "fetch"
            /\ io' = [io EXCEPT !.page = @ + newPosts]
  /\ UNCHANGED <<addresses, musdDec, totalMusdBU, balLog, result>>

\* the upstream answers the pending request `req` of one of the calls with
\* `res`; `step(ops)` is the state of the two calls after the page
PageArrives(res, c1, n1) ==
  /\ sawBadPage' = (sawBadPage \/ IsFailing(res))
  /\ IF post(res).throw
       THEN Throw
       ELSE AfterPage(c1, n1, liveRequests(c1, n1) - liveRequests(cf, net) + 1)
  /\ UNCHANGED <<regVars, cfgVars, decimalsCache, envVars, iterVars, sideVars>>

Answers(req) ==
  {OkResponse(UpstreamPage(ledger, req, upstreamStrict))} \cup FailingResponses

\* a page of cashflowsForAddresses arrives
CashflowsPage ==
  /\ pc = "fetch"
  /\ cf.it.live
  /\ \E res \in Answers(cf.it.req) :
       PageArrives(res, cashflowsStep(cf, addresses, post(res).ops), net)

\* a page of sumGrossDepositsForAddress arrives
GrossDepositsPage ==
  /\ pc = "fetch"
  /\ net.dep.it.live
  /\ \E res \in Answers(net.dep.it.req) :
       PageArrives(res, cf, netStep(net, addresses, "dep", post(res).ops))

\* a page of sumGrossWithdrawalsForAddress arrives
GrossWithdrawalsPage ==
  /\ pc = "fetch"
  /\ net.wd.it.live
  /\ \E res \in Answers(net.wd.it.req) :
       PageArrives(res, cf, netStep(net, addresses, "wd", post(res).ops))

\* balanceOf of the address in turn answers or fails; after the last one
\* the stats object is assembled (xirr returns irr when it is run)
BalanceArrives ==
  /\ pc = "balances"
  /\ \E outcome \in BalanceOutcomes :
       LET k == Len(balLog) + 1
           total1 == totalMusdBU + balanceOfBU(outcome)
       IN /\ balLog' = Append(balLog, [owner |-> addresses[k],
                                       throw |-> outcome.throw,
                                       value |-> outcome.value])
          /\ totalMusdBU' = total1
          /\ IF k < Len(addresses)
               THEN /\ pc' = "balances"
                    /\ io' = [io EXCEPT !.balance = @ + 1]
                    /\ result' = result
               ELSE /\ pc' = "done"
                    /\ io' = io
                    /\ \E irr \in (IF solverRuns(cf.all, total1)
                                     THEN XirrOutcomes
                                     ELSE {NullIrr}) :
                         result' = <<statsOf(net.total, total1, musdDec,
                                              cf.all, irr)>>
  /\ UNCHANGED <<addresses, musdDec, cf, net, sawBadPage>>
  /\ UNCHANGED <<regVars, cfgVars, decimalsCache, envVars, iterVars, sideVars>>

\* --- what happens between calls --------------------------------------
\* /add: addAddress (sequential, one command at a time)
AddAddress(chat, a) ==
  /\ Quiet
  /\ Len(addrRows[chat]) < MaxAddrs \/ a \in Range(addrRows[chat])
  /\ userRows' = ensureUser(userRows, chat)
  /\ addrRows' = [addrRows EXCEPT ![chat] = addAddress(@, a)]
  /\ Forget
  /\ UNCHANGED <<cfgVars, decimalsCache, envVars, iterVars, sideVars>>

\* /remove: removeAddress
RemoveAddress(chat, a) ==
  /\ Quiet
  /\ userRows' = ensureUser(userRows, chat)
  /\ addrRows' = [addrRows EXCEPT ![chat] = removeAddress(@, a)]
  /\ Forget
  /\ UNCHANGED <<cfgVars, decimalsCache, envVars, iterVars, sideVars>>

\* a new operation is recorded upstream while no call is running
LedgerGrows ==
  /\ Quiet
  /\ \E k \in 1..Len(EventPool) : AppendEvent(k)
  /\ Forget
  /\ UNCHANGED <<regVars, cfgVars, decimalsCache, iterVars, sideVars>>

\* ------------------------------------------------------------------
\* Stand-alone calls of iterateOperations
\* ------------------------------------------------------------------
\* --- against an arbitrary upstream ---------------------------------
\* the pages an arbitrary upstream may answer with
UpstreamIds == {EmptyId, 1, 2}
UpstreamPages ==
  {<<>>} \cup {<<[_id |-> i]>> : i \in UpstreamIds}
         \cup {<<[_id |-> 1], [_id |-> 2]>>}

\* the consumer of this call drops the operations it is handed, so that
\* the call can run up to SAFETY_CAP pages
AdvStart == IterStart(NoFilter) /\ UNCHANGED <<envVars, statsVars>>

AdvReceive ==
  \E ops \in UpstreamPages :
    IterReceive(ops) /\ UNCHANGED <<envVars, statsVars, itYielded>>

\* the same upstream against the older copy, which has no page counter:
\* the model stops answering after MaxV1Requests requests
MaxV1Requests == 12

AdvReceiveV1 ==
  \E ops \in UpstreamPages :
    /\ itReqs < MaxV1Requests
    /\ IterReceiveV1(ops)
    /\ UNCHANGED <<envVars, statsVars, itYielded>>

\* --- against a well-behaved upstream holding a static ledger --------
\* the base filters the service builds
BaseFilters ==
  {filterOf(kind, a) : kind \in {"dep", "wd"}, a \in {"0xaa", "0xbb"}}

\* the ledger is static from the first call on
LedgerAppend ==
  /\ itPc = "idle"
  /\ \E k \in 1..Len(EventPool) : AppendEvent(k)
  /\ UNCHANGED <<iterVars, statsVars>>

LedgerStart ==
  /\ \E f \in BaseFilters : IterStart(f)
  /\ UNCHANGED <<envVars, statsVars>>

LedgerReceive ==
  /\ LET ops == UpstreamPage(ledger, itRequest, upstreamStrict) IN
       IterReceive(ops) /\ itYielded' = itYielded \o ops
  /\ UNCHANGED <<envVars, statsVars>>

\* ------------------------------------------------------------------
\* getStats from `const apy = await this.computeApyFromFlows(...)` on,
\* one turn of the loop of xirr at a time
\* ------------------------------------------------------------------
MaxFlows == 2

\* dates in half years
ApyDates == {0, 2}
ApyNows == {1, 2}
ApyAmounts == {-1000, 300}
ApyBalances == {0, 100, 700, 1050, 1200, 2000}
ApyDecimals == {0, 18}

\* the distances in half years at which Math.pow is modelled
PowDistances == {0, 1, 2, 4}

\* what cashflowsForAddresses may return: entries sorted by date, none of
\* amount zero
FlowSeries ==
  LET Entries == [date : ApyDates, amountBU : ApyAmounts]
      All == UNION {[1..n -> Entries] : n \in 0..MaxFlows}
  IN {fs \in All : \A i \in 1..(Len(fs) - 1) : fs[i].date <= fs[i + 1].date}

RECURSIVE SumAmounts(_)
SumAmounts(fs) ==
  IF fs = <<>> THEN 0 ELSE fs[1].amountBU + SumAmounts(Tail(fs))

\* the arguments of computeApyFromFlows and the clock: the call is made
\* after the events it sums, and sumNetDepositsForAddresses has returned
\* deposits - withdrawals of the same events
ApyInputs ==
  {in \in [flowsBU : FlowSeries, currentBalanceBU : ApyBalances,
           musdDecimals : ApyDecimals, now : ApyNows] :
     in.flowsBU = <<>> \/
       /\ in.now >= in.flowsBU[Len(in.flowsBU)].date
       /\ in.now - in.flowsBU[1].date \in PowDistances}

XirrIdle ==
  /\ xPc = "idle"
  /\ xIn = <<>>
  /\ xFlows = <<>>
  /\ xRate = fZero(0)
  /\ xI = 0
  /\ xD = fZero(0)
  /\ xRet = NullRet
  /\ xCalls = 0
  /\ xStats = <<>>

\* computeApyFromFlows returns apy and getStats returns its object
ApyReturns(in, apy) ==
  /\ xPc' = "done"
  /\ xStats' = statsWith(-SumAmounts(in.flowsBU), in.currentBalanceBU,
                         in.musdDecimals, apy)

\* computeApyFromFlows from its tests on, `flows` being the series with
\* the balance of today pushed
ComputeApyFrom(in, flows) ==
  IF Len(in.flowsBU) = 0
    THEN /\ ApyReturns(in, fZero(0))
         /\ UNCHANGED <<xFlows, xRate, xCalls>>
  ELSE IF ~precondition(in.flowsBU, flows)
    THEN /\ xFlows' = flows
         /\ ApyReturns(in, fZero(0))
         /\ UNCHANGED <<xRate, xCalls>>
  ELSE /\ xFlows' = flows
       /\ xCalls' = xCalls + 1
       /\ xRate' = GUESS
       /\ xPc' = "loop"
       /\ UNCHANGED xStats

\* computeApyFromFlows up to the first turn of the loop of xirr
ComputeApyStart(in) ==
  /\ xPc = "idle"
  /\ xIn' = in
  /\ ComputeApyFrom(in, seriesOf(in.flowsBU, in.currentBalanceBU,
                                 in.musdDecimals, in.now))
  /\ UNCHANGED <<xI, xD, xRet>>
  /\ UNCHANGED <<envVars, iterVars, mainVars, dateVars, sumVars, decVars, cmdVars, opVars, overlapVars, workerVars, bootVars>>

\* xirr returns ret, and computeApyFromFlows and getStats after it
XirrReturns(ret) ==
  /\ xRet' = ret
  /\ ApyReturns(xIn, apyOf(ret))

\* the turn t of the loop has been computed: the loop goes on or xirr
\* returns
XirrTurnEnds(t) ==
  /\ xD' = t.d
  /\ xI' = xI + 1
  /\ xRate' = t.rate
  /\ IF t.out = "break" THEN XirrReturns(NullRet)
     ELSE IF t.out = "return"
       THEN XirrReturns([kind |-> "rate", rate |-> t.rate])
     ELSE IF xI + 1 >= MAX_ITER THEN XirrReturns(NullRet)
     ELSE UNCHANGED <<xPc, xRet, xStats>>

\* one turn of the loop of xirr; the turn that ends the loop also ends
\* xirr, computeApyFromFlows and getStats
XirrTurn ==
  /\ xPc = "loop"
  /\ XirrTurnEnds(xirrTurn(xRate, xFlows))
  /\ UNCHANGED <<xIn, xFlows, xCalls>>
  /\ UNCHANGED <<envVars, iterVars, mainVars, dateVars, sumVars, decVars, cmdVars, opVars, overlapVars, workerVars, bootVars>>

\* ------------------------------------------------------------------
\* The loops of cashflowsForAddress over one page that holds a deposit and
\* a withdrawal of the same instant, one with `created` in seconds and
\* the other in milliseconds
\* ------------------------------------------------------------------
MaxSeconds == 200

\* `created` in seconds: up to MaxSeconds, and around the threshold
RawSeconds == (1..MaxSeconds) \cup {MS_THRESHOLD, MS_THRESHOLD + 1}

DatesIdle == dSec = 0 /\ dFlows = <<>>

PageOfInstant(s, depInMs) ==
  << [_id |-> 2, type |-> "deposit", from |-> ZeroAddr, to |-> "0xAA",
      value |-> "1000", created |-> IF depInMs THEN 1000 * s ELSE s],
     [_id |-> 1, type |-> "withdrawal", from |-> "0xAA", to |-> ZeroAddr,
      value |-> "200", created |-> IF depInMs THEN s ELSE 1000 * s] >>

CashflowsOfInstant(s, depInMs) ==
  /\ dSec' = s
  /\ dFlows' = pushFlows(pushFlows(<<>>, PageOfInstant(s, depInMs), "dep", "0xaa"),
                         PageOfInstant(s, depInMs), "wd", "0xaa")
  /\ UNCHANGED <<envVars, iterVars, mainVars, xirrVars, sumVars, decVars, cmdVars, opVars, overlapVars, workerVars, bootVars>>

\* ------------------------------------------------------------------
\* sumGrossDepositsForAddresses, sumGrossWithdrawalsForAddresses and
\* sumNetDepositsForAddresses, each run to its end against a ledger that
\* does not change
\* ------------------------------------------------------------------
\* sumGrossDepositsForAddress / sumGrossWithdrawalsForAddress from the
\* request of the generator `it` on
RECURSIVE sumGrossFrom(_, _, _, _, _, _)
sumGrossFrom(led, strict, kind, addr, it, sum) ==
  LET ops == post(OkResponse(UpstreamPage(led, it.req, strict))).ops
      it1 == advanceIter(it, ops)
      sum1 == addValues(sum, ops, kind, addr)
  IN IF it1.live THEN sumGrossFrom(led, strict, kind, addr, it1, sum1)
     ELSE sum1

sumGrossForAddress(led, strict, kind, address) ==
  sumGrossFrom(led, strict, kind, toLowerCase(address),
               newIter(filterOf(kind, toLowerCase(address))), 0)

\* let total = 0n; for (const a of addresses) total += await ...(a)
RECURSIVE sumGrossForAddresses(_, _, _, _)
sumGrossForAddresses(led, strict, kind, addrs) ==
  IF addrs = <<>> THEN 0
  ELSE sumGrossForAddresses(led, strict, kind, SubSeq(addrs, 1, Len(addrs) - 1))
       + sumGrossForAddress(led, strict, kind, Last(addrs))

sumNetDepositsForAddress(led, strict, address) ==
  netOf(sumGrossForAddress(led, strict, "dep", address),
        sumGrossForAddress(led, strict, "wd", address))

RECURSIVE sumNetDepositsForAddresses(_, _, _)
sumNetDepositsForAddresses(led, strict, addrs) ==
  IF addrs = <<>> THEN 0
  ELSE sumNetDepositsForAddresses(led, strict, SubSeq(addrs, 1, Len(addrs) - 1))
       + sumNetDepositsForAddress(led, strict, Last(addrs))

MaxSumEvents == 3

\* the sequences without repetition of at most n elements of S
Arrangements(S, n) ==
  {q \in UNION {[1..k -> S] : k \in 0..n} :
     \A i, j \in 1..Len(q) : i # j => q[i] # q[j]}

\* the elements of the set S of numbers in ascending order
RECURSIVE Ascending(_)
Ascending(S) ==
  IF S = {} THEN <<>>
  ELSE LET m == CHOOSE x \in S : \A y \in S : y <= x
       IN Append(Ascending(S \ {m}), m)

\* the ledger that recorded the events of the pool in the order q
LedgerOf(q) == [i \in 1..Len(q) |-> WithId(EventPool[q[i]], i)]

SumsIdle ==
  /\ sIn = <<>>
  /\ sOut = <<>>
  /\ sPerm = <<>>
  /\ sOutPerm = <<>>

SumsOf(led, strict, addrs) ==
  [net |-> sumNetDepositsForAddresses(led, strict, addrs),
   dep |-> sumGrossForAddresses(led, strict, "dep", addrs),
   wd |-> sumGrossForAddresses(led, strict, "wd", addrs)]

\* the three sums are taken over the events q, recorded in the order of
\* the pool, for the addresses a, and over the same events and addresses
\* in the orders q2 and a2
SumBoth(q, a, q2, a2, strict) ==
  /\ sIn' = [ledger |-> LedgerOf(q), addresses |-> a]
  /\ sPerm' = [ledger |-> LedgerOf(q2), addresses |-> a2]
  /\ sOut' = SumsOf(LedgerOf(q), strict, a)
  /\ sOutPerm' = SumsOf(LedgerOf(q2), strict, a2)
  /\ UNCHANGED <<envVars, iterVars, mainVars, xirrVars, dateVars, decVars, cmdVars, opVars, overlapVars, workerVars, bootVars>>

\* ------------------------------------------------------------------
\* getDecimals, one call after another
\* ------------------------------------------------------------------
MaxCalls == 3
\* `token` in several letter cases, and a second token
Tokens == {"0xMUSD", "0xmusd", "0xBB"}
\* `envOverride`: not set, or a number
Overrides == {Undefined, 6}
\* decimals() is declared Promise<number> by a cast; the uint8 it decodes
\* is a number or a bigint, as the library of the build decodes it
DecimalsTypes == {"number", "bigint"}

\* a runtime value with its typeof
Number(n) == [type |-> "number", value |-> n]
NoValue == [type |-> "undefined", value |-> 0]
typeofIsNumber(v) == v.type = "number"
\* what decimals() of `token` resolves to
decimalsOnChain(token) ==
  [type |-> decimalsType,
   value |-> IF toLowerCase(token) = CacheKey THEN tokenDecimals ELSE 6]
cacheGet(cache, key) == IF key \in DOMAIN cache THEN cache[key] ELSE NoValue
cacheSet(cache, key, dec) ==
  [k \in DOMAIN cache \cup {key} |-> IF k = key THEN dec ELSE cache[k]]

DecimalsIdle == gdPc = "idle" /\ gdToken = "" /\ gdLog = <<>>

GdEnded(token, envOverride, out, ret, queries, after) ==
  [token |-> token, envOverride |-> envOverride, out |-> out, ret |-> ret,
   queries |-> queries, before |-> decimalsCache, after |-> after]

\* getDecimals up to its return, or to the decimals() query it awaits
GetDecimalsStart(token, envOverride) ==
  LET cached == cacheGet(decimalsCache, toLowerCase(token)) IN
  /\ gdPc = "idle"
  /\ Len(gdLog) < MaxCalls
  /\ IF envOverride # Undefined
       THEN /\ gdLog' = Append(gdLog, GdEnded(token, envOverride, "return",
                                 Number(envOverride), 0, decimalsCache))
            /\ UNCHANGED <<gdPc, gdToken>>
       ELSE IF typeofIsNumber(cached)
         THEN /\ gdLog' = Append(gdLog, GdEnded(token, envOverride, "return",
                                   cached, 0, decimalsCache))
              /\ UNCHANGED <<gdPc, gdToken>>
         ELSE /\ gdPc' = "query"
              /\ gdToken' = token
              /\ UNCHANGED gdLog
  /\ UNCHANGED <<envVars, iterVars, regVars, cfgVars, callVars, decimalsCache,
                 xirrVars, dateVars, sumVars, decimalsType, cmdVars, opVars, overlapVars, workerVars, bootVars>>

\* decimals() resolves: the value is stored under the lowercased token
GetDecimalsResolves ==
  LET dec == decimalsOnChain(gdToken)
      after == cacheSet(decimalsCache, toLowerCase(gdToken), dec) IN
  /\ gdPc = "query"
  /\ decimalsCache' = after
  /\ gdLog' = Append(gdLog, GdEnded(gdToken, Undefined, "return", dec, 1, after))
  /\ gdPc' = "idle"
  /\ gdToken' = ""
  /\ UNCHANGED <<envVars, iterVars, regVars, cfgVars, callVars,
                 xirrVars, dateVars, sumVars, decimalsType, cmdVars, opVars, overlapVars, workerVars, bootVars>>

\* decimals() rejects: getDecimals throws
GetDecimalsRejects ==
  /\ gdPc = "query"
  /\ gdLog' = Append(gdLog, GdEnded(gdToken, Undefined, "throw", NoValue, 1,
                                    decimalsCache))
  /\ gdPc' = "idle"
  /\ gdToken' = ""
  /\ UNCHANGED <<envVars, iterVars, regVars, cfgVars, callVars, decimalsCache,
                 xirrVars, dateVars, sumVars, decimalsType, cmdVars, opVars, overlapVars, workerVars, bootVars>>

\* ------------------------------------------------------------------
\* The /stats command handler of TelegramService
\* ------------------------------------------------------------------
\* getChatId of an update that has no numeric chat id
NoChat == "null"
NoAddressesReply == [text |-> "No addresses. Add some with /add 0x...", markdown |-> FALSE]
FailedReply ==
  [text |-> "Failed to compute stats, please try again later.", markdown |-> FALSE]
\* replySafe(ctx, msg, true): the Markdown message made of s
StatsReply(st) == [text |-> "Molecula Portfolio", of |-> st, markdown |-> TRUE]
IsStatsReply(r) == r.markdown

NotCalled == [out |-> "none"]
Threw == [out |-> "throw"]
GotStats(st) == [out |-> "return", stats |-> st]
\* stats objects getStats returns to the handler
StatsReturned == {ZeroStats, statsWith(1000, 1050, 0, 0), statsWith(800, 950, 0, 0)}

CmdIdle ==
  /\ hPc = "idle"
  /\ hChatId = NoChat
  /\ hAddrs = <<>>
  /\ hStats = NotCalled
  /\ hReplies = <<>>
  /\ hThrown = "none"

\* an error thrown inside the try block, without the catch clause
afterThrowNoCatch(replies, err) ==
  [pc |-> "ended", replies |-> replies, thrown |-> err]

\* an error thrown inside the try block: the catch clause logs it and
\* awaits the reply of the generic text
afterThrow(replies, err) ==
  [pc |-> "replyCaught", replies |-> Append(replies, FailedReply), thrown |-> "none"]

Catch(err) ==
  LET h == afterThrow(hReplies, err) IN
  /\ hPc' = h.pc
  /\ hReplies' = h.replies
  /\ hThrown' = h.thrown

CmdRest == <<envVars, iterVars, cfgVars, decimalsCache, callVars, xirrVars, dateVars,
             sumVars, decVars, opVars, overlapVars, workerVars, bootVars>>

\* the update arrives: getChatId; without a chat id the handler returns
StatsCommand(chat) ==
  /\ hPc \in {"idle", "ended"}
  /\ hPc' = IF chat = NoChat THEN "ended" ELSE "list"
  /\ hChatId' = chat
  /\ hAddrs' = <<>>
  /\ hStats' = NotCalled
  /\ hReplies' = <<>>
  /\ hThrown' = "none"
  /\ UNCHANGED <<regVars, CmdRest>>

\* users.listAddresses answers; an empty list is replied to at once, and
\* the promise of that reply is returned without being awaited
ListAddressesAnswers ==
  /\ hPc = "list"
  /\ userRows' = ensureUser(userRows, hChatId)
  /\ hAddrs' = addrRows[hChatId]
  /\ IF isEmpty(addrRows[hChatId])
       THEN hPc' = "replyReturned" /\ hReplies' = Append(hReplies, NoAddressesReply)
       ELSE hPc' = "getStats" /\ hReplies' = hReplies
  /\ UNCHANGED <<addrRows, hChatId, hStats, hThrown, CmdRest>>

ListAddressesFails ==
  /\ hPc = "list"
  /\ Catch("listAddresses")
  /\ UNCHANGED <<regVars, hChatId, hAddrs, hStats, CmdRest>>

\* portfolio.getStats returns: the message is made and its reply awaited
GetStatsReturns(st) ==
  /\ hPc = "getStats"
  /\ hStats' = GotStats(st)
  /\ hReplies' = Append(hReplies, StatsReply(st))
  /\ hPc' = "replyInTry"
  /\ UNCHANGED <<regVars, hChatId, hAddrs, hThrown, CmdRest>>

\* portfolio.getStats throws
GetStatsThrows ==
  /\ hPc = "getStats"
  /\ hStats' = Threw
  /\ Catch("getStats")
  /\ UNCHANGED <<regVars, hChatId, hAddrs, CmdRest>>

\* ctx.reply resolves: the handler is over
ReplyResolves ==
  /\ hPc \in {"replyReturned", "replyInTry", "replyCaught"}
  /\ hPc' = "ended"
  /\ UNCHANGED <<regVars, hChatId, hAddrs, hStats, hReplies, hThrown, CmdRest>>

\* ctx.reply rejects: caught when it was awaited inside the try block,
\* else the handler rejects with it
ReplyRejects ==
  /\ hPc \in {"replyReturned", "replyInTry", "replyCaught"}
  /\ IF hPc = "replyInTry"
       THEN Catch("reply")
       ELSE hPc' = "ended" /\ hThrown' = "reply" /\ hReplies' = hReplies
  /\ UNCHANGED <<regVars, hChatId, hAddrs, hStats, CmdRest>>

\* /add between two /stats commands
AddBetween(chat, a) ==
  /\ hPc \in {"idle", "ended"}
  /\ AddAddress(chat, a)

\* ------------------------------------------------------------------
\* UsersService: the registry of two chats, one operation after another
\* ------------------------------------------------------------------
RegChats == {"c1", "c2"}
NoOp == [op |-> "none", chat |-> "", address |-> "", before |-> <<>>,
         users |-> {}]
OpsIdle == rLast = NoOp

\* listAddresses: the address column of the rows of the chat, by added_at
listAddresses(rows, chat) == rows[chat]

RegRest == <<envVars, iterVars, cfgVars, decimalsCache, callVars, xirrVars, dateVars,
             sumVars, decVars, cmdVars, overlapVars, workerVars, bootVars>>

AddAddressCall(chat, a) ==
  /\ Len(addrRows[chat]) < MaxAddrs \/ a \in Range(addrRows[chat])
  /\ userRows' = ensureUser(userRows, chat)
  /\ addrRows' = [addrRows EXCEPT ![chat] = addAddress(@, a)]
  /\ rLast' = [op |-> "add", chat |-> chat, address |-> a, before |-> addrRows,
               users |-> userRows]
  /\ UNCHANGED RegRest

RemoveAddressCall(chat, a) ==
  /\ userRows' = ensureUser(userRows, chat)
  /\ addrRows' = [addrRows EXCEPT ![chat] = removeAddress(@, a)]
  /\ rLast' = [op |-> "remove", chat |-> chat, address |-> a, before |-> addrRows,
               users |-> userRows]
  /\ UNCHANGED RegRest

ListAddressesCall(chat) ==
  /\ userRows' = ensureUser(userRows, chat)
  /\ rLast' = [op |-> "list", chat |-> chat, address |-> "", before |-> addrRows,
               users |-> userRows]
  /\ UNCHANGED <<addrRows, RegRest>>

\* getStats as far as the registry goes: its first statement awaits
\* listAddresses, and nothing after it reads or writes the registry
GetStatsCall(chat) ==
  /\ userRows' = ensureUser(userRows, chat)
  /\ rLast' = [op |-> "stats", chat |-> chat, address |-> "", before |-> addrRows,
               users |-> userRows]
  /\ UNCHANGED <<addrRows, RegRest>>

\* ------------------------------------------------------------------
\* getStats calls that overlap: each runs to the decimals() query of
\* getDecimals, and the queries resolve in any order
\* ------------------------------------------------------------------
MaxOverlap == 3
Callers == 1..MaxOverlap

\* what listAddresses answers a call with
TrackedLists == {<<>>, <<"0xAA">>}

OverlapIdle == gsPc = [p \in Callers |-> "idle"] /\ cacheLog = <<>>

OverlapRest ==
  <<envVars, iterVars, regVars, cfgVars, callVars, xirrVars, dateVars,
    sumVars, decVars, cmdVars, opVars, workerVars, bootVars>>

\* getStats of caller p from the answer of listAddresses to its return, or
\* to the decimals() query of getDecimals
OverlapStart(p, addrs) ==
  /\ gsPc[p] = "idle"
  /\ IF isEmpty(addrs) THEN gsPc' = [gsPc EXCEPT ![p] = "done"]
     ELSE IF decimalsEnv # Undefined THEN gsPc' = [gsPc EXCEPT ![p] = "rest"]
     ELSE IF typeofIsNumber(cacheGet(decimalsCache, toLowerCase(MusdToken)))
       THEN gsPc' = [gsPc EXCEPT ![p] = "rest"]
     ELSE gsPc' = [gsPc EXCEPT ![p] = "query"]
  /\ UNCHANGED <<decimalsCache, cacheLog, OverlapRest>>

\* decimals() of caller p resolves: this.decimalsCache.set(key, dec)
OverlapResolves(p) ==
  /\ gsPc[p] = "query"
  /\ decimalsCache' = cacheSet(decimalsCache, toLowerCase(MusdToken),
                               decimalsOnChain(MusdToken))
  /\ cacheLog' = Append(cacheLog, [key |-> toLowerCase(MusdToken),
                                   dec |-> decimalsOnChain(MusdToken),
                                   by |-> p])
  /\ gsPc' = [gsPc EXCEPT ![p] = "rest"]
  /\ UNCHANGED OverlapRest

\* decimals() of caller p rejects: getDecimals and getStats throw
OverlapRejects(p) ==
  /\ gsPc[p] = "query"
  /\ gsPc' = [gsPc EXCEPT ![p] = "failed"]
  /\ UNCHANGED <<decimalsCache, cacheLog, OverlapRest>>

\* the rest of getStats of caller p, which does not touch the cache
OverlapReturns(p) ==
  /\ gsPc[p] = "rest"
  /\ gsPc' = [gsPc EXCEPT ![p] = "done"]
  /\ UNCHANGED <<decimalsCache, cacheLog, OverlapRest>>

\* ------------------------------------------------------------------
\* UsersService: registry operations that overlap.  Every repository
\* call is awaited, so the calls of different operations interleave; the
\* database runs each of them at once and enforces its unique
\* constraints (app_user.tg_chat_id, user_address (user, address)).
\* ------------------------------------------------------------------
MaxWorkers == 2
Workers == 1..MaxWorkers

WorkerIdle == [op |-> "none", chat |-> "", address |-> "", pc |-> "idle"]
WorkersIdle == regOp = [w \in Workers |-> WorkerIdle]

WorkersRest ==
  <<envVars, iterVars, cfgVars, decimalsCache, callVars, xirrVars, dateVars,
    sumVars, decVars, cmdVars, opVars, overlapVars, bootVars>>

\* where an operation goes on after ensureUser has returned
afterEnsureUser(o) ==
  IF o.op = "ensureUser" THEN [o EXCEPT !.pc = "done"]
  ELSE [o EXCEPT !.pc = "findAddress"]

\* ensureUser(chat) or addAddress(chat, a) is called: the findOne of
\* ensureUser is sent
WorkerCalls(w, op, chat, a) ==
  /\ regOp[w].pc = "idle"
  /\ regOp' = [regOp EXCEPT ![w] =
                 [op |-> op, chat |-> chat,
                  address |-> IF op = "addAddress" THEN a ELSE "",
                  pc |-> "findUser"]]
  /\ UNCHANGED <<regVars, WorkersRest>>

\* users.findOne({ where: { tg_chat_id } }) answers
WorkerFindsUser(w) ==
  /\ regOp[w].pc = "findUser"
  /\ regOp' = [regOp EXCEPT ![w] =
                 IF regOp[w].chat \in userRows THEN afterEnsureUser(@)
                 ELSE [@ EXCEPT !.pc = "saveUser"]]
  /\ UNCHANGED <<regVars, WorkersRest>>

\* users.save(u) answers: the row is inserted, or the insert violates the
\* unique constraint on tg_chat_id and the operation rejects
WorkerSavesUser(w) ==
  /\ regOp[w].pc = "saveUser"
  /\ IF regOp[w].chat \in userRows
       THEN /\ regOp' = [regOp EXCEPT ![w].pc = "error"]
            /\ UNCHANGED userRows
       ELSE /\ regOp' = [regOp EXCEPT ![w] = afterEnsureUser(@)]
            /\ userRows' = ensureUser(userRows, regOp[w].chat)
  /\ UNCHANGED <<addrRows, WorkersRest>>

\* addrs.findOne({ where: { user, address } }) answers
WorkerFindsAddress(w) ==
  /\ regOp[w].pc = "findAddress"
  /\ regOp' = [regOp EXCEPT ![w].pc =
                 IF regOp[w].address \in Range(addrRows[regOp[w].chat])
                   THEN "done" ELSE "saveAddress"]
  /\ UNCHANGED <<regVars, WorkersRest>>

\* addrs.save(rec) answers: the row is inserted, or the insert violates
\* @Unique(['user', 'address']) and the operation rejects
WorkerSavesAddress(w) ==
  /\ regOp[w].pc = "saveAddress"
  /\ IF regOp[w].address \in Range(addrRows[regOp[w].chat])
       THEN /\ regOp' = [regOp EXCEPT ![w].pc = "error"]
            /\ UNCHANGED addrRows
       ELSE /\ regOp' = [regOp EXCEPT ![w].pc = "done"]
            /\ addrRows' = [addrRows EXCEPT ![regOp[w].chat] =
                              addAddressAlways(@, regOp[w].address)]
  /\ UNCHANGED <<userRows, WorkersRest>>

\* ------------------------------------------------------------------
\* TelegramService: the constructor, bootstrap and safeLaunch of the
\* services built in one process.  The code between two awaits runs at
\* once; deleteWebhook and bot.launch are awaited.
\* ------------------------------------------------------------------
MaxServices == 2
Services == 1..MaxServices

NotBuilt ==
  [pc |-> "none", isDev |-> FALSE, telegramEnabled |-> FALSE, calls |-> <<>>,
   webhook |-> "none"]
BootIdle == tg = [s \in Services |-> NotBuilt] /\ BOT_LAUNCHED = FALSE

BootRest ==
  <<envVars, iterVars, mainVars, xirrVars, dateVars, sumVars, decVars,
    cmdVars, opVars, overlapVars, workerVars>>

\* bootstrap up to its first await: bot.catch, bot.use in development,
\* registerHandlers, and, unless Telegram is disabled, deleteWebhook
bootstrapCalls(isDev, telegramEnabled) ==
  <<"catch">> \o (IF isDev THEN <<"use">> ELSE <<>>) \o <<"registerHandlers">>
  \o (IF telegramEnabled THEN <<"deleteWebhook">> ELSE <<>>)

\* a bootstrap without the try around deleteWebhook
afterDeleteWebhookNoCatch(failed) == IF failed THEN "rejected" ELSE "safeLaunch"

\* try { await deleteWebhook } catch { warn }: bootstrap goes on to
\* safeLaunch either way
afterDeleteWebhook(failed) == "safeLaunch"

\* new TelegramService(...): the flags are read and bootstrap is started
\* without being awaited
Construct(s, isDev, telegramEnabled) ==
  /\ tg[s].pc = "none"
  /\ tg' = [tg EXCEPT ![s] =
              [pc |-> IF telegramEnabled THEN "deleteWebhook" ELSE "returned",
               isDev |-> isDev, telegramEnabled |-> telegramEnabled,
               calls |-> bootstrapCalls(isDev, telegramEnabled),
               webhook |-> "none"]]
  /\ UNCHANGED <<BOT_LAUNCHED, BootRest>>

\* safeLaunch up to its first await: nothing when BOT_LAUNCHED is set,
\* else bot.launch is called
safeLaunch(t, launched) ==
  IF launched THEN [t EXCEPT !.pc = "skipped"]
  ELSE [t EXCEPT !.pc = "launching", !.calls = Append(@, "launch")]

\* deleteWebhook resolves or rejects; bootstrap goes on
DeleteWebhookEnds(s, failed) ==
  /\ tg[s].pc = "deleteWebhook"
  /\ tg' = [tg EXCEPT ![s] =
              IF afterDeleteWebhook(failed) = "safeLaunch"
                THEN safeLaunch([@ EXCEPT !.webhook = IF failed THEN "failed" ELSE "ok"],
                                BOT_LAUNCHED)
                ELSE [@ EXCEPT !.webhook = "failed", !.pc = "rejected"]]
  /\ UNCHANGED <<BOT_LAUNCHED, BootRest>>

\* bot.launch resolves: BOT_LAUNCHED = true
LaunchResolves(s) ==
  /\ tg[s].pc = "launching"
  /\ BOT_LAUNCHED' = TRUE
  /\ tg' = [tg EXCEPT ![s].pc = "launched"]
  /\ UNCHANGED BootRest

\* bot.launch rejects: safeLaunch logs and rethrows, bootstrap rejects
LaunchRejects(s) ==
  /\ tg[s].pc = "launching"
  /\ tg' = [tg EXCEPT ![s].pc = "rejected"]
  /\ UNCHANGED <<BOT_LAUNCHED, BootRest>>

\* ------------------------------------------------------------------
\* The ledger grows while a getStats call fetches it
\* ------------------------------------------------------------------
\* a new operation is recorded upstream between two page requests of the
\* running call
LedgerGrowsDuringFetch ==
  /\ pc = "fetch"
  /\ \E k \in 1..Len(EventPool) : AppendEvent(k)
  /\ UNCHANGED <<regVars, cfgVars, decimalsCache, callVars, iterVars, sideVars>>

\* ------------------------------------------------------------------
\* Specifications
\* ------------------------------------------------------------------
StatsOff ==
  /\ userRows = {}
  /\ addrRows = [c \in Chats |-> <<>>]
  /\ decimalsEnv = Undefined
  /\ tokenDecimals = 2
  /\ decimalsCache = [k \in {} |-> 0]
  /\ CallIdle
  /\ XirrIdle
  /\ DatesIdle
  /\ SumsIdle
  /\ DecimalsIdle
  /\ decimalsType = "number"
  /\ CmdIdle
  /\ OpsIdle
  /\ BootIdle
  /\ WorkersIdle
  /\ OverlapIdle

\* iterateOperations against an arbitrary upstream
InitAdv == ledger = <<>> /\ upstreamStrict = TRUE /\ InitIter /\ StatsOff
NextAdv == AdvStart \/ AdvReceive
SpecAdv == InitAdv /\ [][NextAdv]_vars

\* the older copy of iterateOperations against an arbitrary upstream
NextAdvV1 == AdvStart \/ AdvReceiveV1
SpecAdvV1 == InitAdv /\ [][NextAdvV1]_vars

\* iterateOperations against a static ledger
InitLedger ==
  ledger = <<>> /\ upstreamStrict \in BOOLEAN /\ InitIter /\ StatsOff
NextLedger == LedgerAppend \/ LedgerStart \/ LedgerReceive
SpecLedger == InitLedger /\ [][NextLedger]_vars

\* computeApyFromFlows and xirr on the series of ApyInputs
MainOff == ledger = <<>> /\ upstreamStrict = TRUE /\ InitIter /\ StatsOff
NextApy == (\E in \in ApyInputs : ComputeApyStart(in)) \/ XirrTurn
SpecApy == MainOff /\ [][NextApy]_vars

\* the dates cashflowsForAddress gives the events of one instant
NextDates ==
  /\ dSec = 0
  /\ \E s \in RawSeconds, depInMs \in BOOLEAN : CashflowsOfInstant(s, depInMs)
SpecDates == MainOff /\ [][NextDates]_vars

\* the three sums over every ledger and address list, in two orders
NextSums ==
  /\ sIn = <<>>
  /\ \E q2 \in Arrangements(1..Len(EventPool), MaxSumEvents),
        a \in Arrangements(AddrStrings, MaxAddrs), strict \in BOOLEAN :
       \E a2 \in Arrangements(Range(a), Len(a)) :
         /\ Len(a2) = Len(a)
         /\ SumBoth(Ascending(Range(q2)), a, q2, a2, strict)
SpecSums == MainOff /\ [][NextSums]_vars

\* getDecimals, one call after another, in a build of either decoding
InitDecimals ==
  /\ ledger = <<>>
  /\ upstreamStrict = TRUE
  /\ InitIter
  /\ userRows = {}
  /\ addrRows = [c \in Chats |-> <<>>]
  /\ decimalsEnv = Undefined
  /\ tokenDecimals = 2
  /\ decimalsCache = [k \in {} |-> 0]
  /\ CallIdle
  /\ XirrIdle
  /\ DatesIdle
  /\ SumsIdle
  /\ DecimalsIdle
  /\ decimalsType \in DecimalsTypes
  /\ CmdIdle
  /\ OpsIdle
  /\ BootIdle
  /\ WorkersIdle
  /\ OverlapIdle
NextDecimals ==
  \/ \E token \in Tokens, envOverride \in Overrides :
       GetDecimalsStart(token, envOverride)
  \/ GetDecimalsResolves
  \/ GetDecimalsRejects
SpecDecimals == InitDecimals /\ [][NextDecimals]_vars

\* the /stats command, one update after another
NextStatsCmd ==
  \/ \E chat \in Chats \cup {NoChat} : StatsCommand(chat)
  \/ ListAddressesAnswers
  \/ ListAddressesFails
  \/ \E st \in StatsReturned : GetStatsReturns(st)
  \/ GetStatsThrows
  \/ ReplyResolves
  \/ ReplyRejects
  \/ \E chat \in Chats, a \in AddrStrings : AddBetween(chat, a)
SpecStatsCmd == MainOff /\ [][NextStatsCmd]_vars

\* the registry of two chats
InitRegistry ==
  /\ ledger = <<>>
  /\ upstreamStrict = TRUE
  /\ InitIter
  /\ userRows = {}
  /\ addrRows = [c \in RegChats |-> <<>>]
  /\ decimalsEnv = Undefined
  /\ tokenDecimals = 2
  /\ decimalsCache = [k \in {} |-> 0]
  /\ CallIdle
  /\ XirrIdle
  /\ DatesIdle
  /\ SumsIdle
  /\ DecimalsIdle
  /\ decimalsType = "number"
  /\ CmdIdle
  /\ OpsIdle
  /\ BootIdle
  /\ WorkersIdle
  /\ OverlapIdle
NextRegistry ==
  \/ \E chat \in RegChats, a \in AddrStrings : AddAddressCall(chat, a)
  \/ \E chat \in RegChats, a \in AddrStrings : RemoveAddressCall(chat, a)
  \/ \E chat \in RegChats : ListAddressesCall(chat)
  \/ \E chat \in RegChats : GetStatsCall(chat)
SpecRegistry == InitRegistry /\ [][NextRegistry]_vars

\* getStats calls that overlap, in a build where decimals() resolves to a
\* number
InitOverlap ==
  /\ ledger = <<>>
  /\ upstreamStrict = TRUE
  /\ InitIter
  /\ userRows = {}
  /\ addrRows = [c \in Chats |-> <<>>]
  /\ decimalsEnv \in Overrides
  /\ tokenDecimals = 2
  /\ decimalsCache = [k \in {} |-> 0]
  /\ CallIdle
  /\ XirrIdle
  /\ DatesIdle
  /\ SumsIdle
  /\ DecimalsIdle
  /\ decimalsType = "number"
  /\ CmdIdle
  /\ OpsIdle
  /\ BootIdle
  /\ WorkersIdle
  /\ OverlapIdle
NextOverlap ==
  \/ \E p \in Callers, addrs \in TrackedLists : OverlapStart(p, addrs)
  \/ \E p \in Callers : OverlapResolves(p)
  \/ \E p \in Callers : OverlapRejects(p)
  \/ \E p \in Callers : OverlapReturns(p)
SpecOverlap == InitOverlap /\ [][NextOverlap]_vars

\* registry operations that overlap
NextWorkers ==
  \/ \E w \in Workers, op \in {"ensureUser", "addAddress"}, chat \in Chats,
        a \in AddrStrings : WorkerCalls(w, op, chat, a)
  \/ \E w \in Workers : WorkerFindsUser(w)
  \/ \E w \in Workers : WorkerSavesUser(w)
  \/ \E w \in Workers : WorkerFindsAddress(w)
  \/ \E w \in Workers : WorkerSavesAddress(w)
SpecWorkers == MainOff /\ [][NextWorkers]_vars

\* the TelegramService instances of one process
NextBoot ==
  \/ \E s \in Services, isDev \in BOOLEAN, telegramEnabled \in BOOLEAN :
       Construct(s, isDev, telegramEnabled)
  \/ \E s \in Services, failed \in BOOLEAN : DeleteWebhookEnds(s, failed)
  \/ \E s \in Services : LaunchResolves(s)
  \/ \E s \in Services : LaunchRejects(s)
SpecBoot == MainOff /\ [][NextBoot]_vars

\* the registry, the ledger and getStats, one call at a time
Init ==
  /\ ledger = <<>>
  /\ upstreamStrict \in BOOLEAN
  /\ InitIter
  /\ userRows = {}
  /\ addrRows = [c \in Chats |-> <<>>]
  /\ decimalsEnv \in {Undefined, 0}
  /\ tokenDecimals = 2
  /\ decimalsCache = [k \in {} |-> 0]
  /\ CallIdle
  /\ XirrIdle
  /\ DatesIdle
  /\ SumsIdle
  /\ DecimalsIdle
  /\ decimalsType = "number"
  /\ CmdIdle
  /\ OpsIdle
  /\ BootIdle
  /\ WorkersIdle
  /\ OverlapIdle

Next ==
  \/ \E c \in Chats : GetStatsStart(c)
  \/ DecimalsAnswer
  \/ DecimalsFails
  \/ CashflowsPage
  \/ GrossDepositsPage
  \/ GrossWithdrawalsPage
  \/ BalanceArrives
  \/ \E c \in Chats, a \in AddrStrings : AddAddress(c, a)
  \/ \E c \in Chats, a \in AddrStrings : RemoveAddress(c, a)
  \/ LedgerGrows

Spec == Init /\ [][Next]_vars

\* getStats against a ledger that grows during the call as well as
\* between calls (decimals from the override, a strict upstream)
InitLive == Init /\ upstreamStrict = TRUE /\ decimalsEnv = 0
NextLive ==
  \/ \E c \in Chats : GetStatsStart(c)
  \/ CashflowsPage
  \/ GrossDepositsPage
  \/ GrossWithdrawalsPage
  \/ BalanceArrives
  \/ \E c \in Chats, a \in AddrStrings : AddAddress(c, a)
  \/ LedgerGrows
  \/ LedgerGrowsDuringFetch
SpecLive == InitLive /\ [][NextLive]_vars

\* ------------------------------------------------------------------
\* C1: a non-empty page whose last id equals the cursor that requested it
\* ends the call: no further request is in flight after such a page.
\* ------------------------------------------------------------------
StalledPage ==
  /\ itPc # "idle"
  /\ Len(itPage) > 0
  /\ Last(itPage)._id = itPageCursor

C1_StallTerminates == StalledPage => itPc = "done"

\* ------------------------------------------------------------------
\* C2: whatever the upstream answers, one call issues at most
\* SAFETY_CAP + 1 page requests and then ends.
\* ------------------------------------------------------------------
C2_BoundedRequests ==
  /\ itReqs <= SAFETY_CAP + 1
  /\ itSafety > SAFETY_CAP => itPc = "done"

C2_Witness == itPc = "done" /\ itReqs = SAFETY_CAP + 1 /\ Len(itPage) > 0

\* ------------------------------------------------------------------
\* C3: against a well-behaved static ledger the pages are requested one
\* after another in order 'desc', the first without cursor and each later
\* one with the last id of the page before it; every matching event is
\* yielded exactly once, most recent first, and the first empty page ends
\* the call.
\* ------------------------------------------------------------------
\* all the events of the ledger that the upstream selects for the filter,
\* most recent first
MatchingDesc ==
  Reverse(SelectSeq(ledger, LAMBDA e :
            UpstreamMatches(e, MkRequest(itFilter, PageSize, Undefined),
                            upstreamStrict)))

IsPrefix(s, t) == Len(s) <= Len(t) /\ s = SubSeq(t, 1, Len(s))

C3_SequentialPaging ==
  /\ itPc = "wait" =>
       /\ itRequest = [field |-> itFilter.field, addr |-> itFilter.addr,
                       type |-> itFilter.type, order |-> "desc",
                       limit |-> PageSize,
                       before |-> IF itReqs = 1 THEN Undefined
                                                ELSE Last(itPage)._id]
       /\ itReqs > 1 => Len(itPage) > 0
       /\ IsPrefix(itYielded, MatchingDesc)
  /\ itPc = "done" =>
       /\ itPage = <<>>
       /\ itYielded = MatchingDesc
       /\ itRequest.before = IF itReqs = 1 THEN Undefined
                                           ELSE Last(itYielded)._id

C3_Witness ==
  /\ itPc = "done"
  /\ itReqs = 3
  /\ Len(itYielded) = 3
  /\ Len(SelectSeq(ledger, LAMBDA e : e \notin Range(itYielded))) = 0

\* ------------------------------------------------------------------
\* C4: when a ledger page request of a getStats call ends in a non-success
\* HTTP response, a GraphQL error payload or a reply without data, the
\* call fails and returns no stats object.
\* ------------------------------------------------------------------
C4_PageFailureIsFatal == sawBadPage => (pc = "failed" /\ result = <<>>)

C4_Witness == sawBadPage /\ pc = "failed" /\ io.page > 3 /\ ledger # <<>>

\* ------------------------------------------------------------------
\* C5: every cashflow entry is non-zero; one that comes from a deposit or
\* swapDeposit has the address as receiver and amount minus the event
\* value (negative); one that comes from a withdrawal or swapWithdrawal
\* has the address as sender and amount the event value (positive).
\* ------------------------------------------------------------------
CashflowEntries ==
  Range(cf.flows) \cup Range(cf.all)
  \cup UNION {Range(cf.parts[i]) : i \in 1..Len(cf.parts)}

\* the number an amount string stands for
EventValue(v) ==
  CASE v = "0" -> 0 [] v = "50" -> 50 [] v = "200" -> 200
    [] v = "300" -> 300 [] v = "1000" -> 1000 [] OTHER -> 0

SameAddress(a, b) == toLowerCase(a) = toLowerCase(b)

EntryMatchesOrigin(e) ==
  /\ e.amountBU # 0
  /\ e.op \in Range(ledger)
  /\ e.op.type \in DepositTypes \cup WithdrawalTypes
  /\ e.op.type \in DepositTypes =>
       /\ SameAddress(e.op.to, e.addr)
       /\ e.amountBU = 0 - EventValue(e.op.value)
       /\ e.amountBU < 0
  /\ e.op.type \in WithdrawalTypes =>
       /\ SameAddress(e.op.from, e.addr)
       /\ e.amountBU = EventValue(e.op.value)
       /\ e.amountBU > 0

C5_SignByOrigin == \A e \in CashflowEntries : EntryMatchesOrigin(e)

C5_Witness ==
  /\ pc = "done"
  /\ \E e \in Range(cf.all) : e.amountBU < 0
  /\ \E e \in Range(cf.all) : e.amountBU > 0
  /\ \E ev \in Range(ledger) :
       /\ ev.type \in DepositTypes
       /\ \A i \in 1..Len(addresses) : ~SameAddress(ev.to, addresses[i])

\* ------------------------------------------------------------------
\* C6: the result of cashflowsForAddresses is a permutation of the
\* concatenation of the per-address results and is sorted by date.
\* ------------------------------------------------------------------
RECURSIVE Concat(_)
Concat(ss) == IF ss = <<>> THEN <<>> ELSE Head(ss) \o Concat(Tail(ss))

Count(s, x) == Cardinality({i \in 1..Len(s) : s[i] = x})

IsPermutation(s, t) ==
  /\ Len(s) = Len(t)
  /\ \A x \in Range(s) \cup Range(t) : Count(s, x) = Count(t, x)

IsSortedByDate(s) == \A i \in 1..Len(s) - 1 : s[i].date <= s[i + 1].date

C6_MergedAndSorted ==
  cf.phase = "done" =>
    /\ Len(cf.parts) = Len(addresses)
    /\ IsPermutation(cf.all, Concat(cf.parts))
    /\ IsSortedByDate(cf.all)

C6_Witness ==
  /\ cf.phase = "done"
  /\ Len(addresses) = 2
  /\ Len(cf.parts[1]) > 0
  /\ Len(cf.parts[2]) > 0
  /\ ~IsSortedByDate(Concat(cf.parts))

\* ------------------------------------------------------------------
\* C7: yieldValue = balance + grossWithdrawn - grossDeposited, on base
\* units: the balance is the sum of the balances looked up, the gross
\* totals are those of the ledger for the tracked addresses.
\* ------------------------------------------------------------------
RECURSIVE SumSeq(_)
SumSeq(s) == IF s = <<>> THEN 0 ELSE Head(s) + SumSeq(Tail(s))

\* gross total of one address: the events of the given types whose party
\* (receiver of a deposit, sender of a withdrawal) is the address
GrossOfAddress(a, types, field) ==
  SumSeq([i \in 1..Len(ledger) |->
            IF ledger[i].type \in types /\ SameAddress(Party(ledger[i], field), a)
              THEN EventValue(ledger[i].value) ELSE 0])

GrossDeposited ==
  SumSeq([i \in 1..Len(addresses) |->
            GrossOfAddress(addresses[i], DepositTypes, "to")])

GrossWithdrawn ==
  SumSeq([i \in 1..Len(addresses) |->
            GrossOfAddress(addresses[i], WithdrawalTypes, "from")])

BalanceLookedUp ==
  SumSeq([i \in 1..Len(balLog) |->
            IF balLog[i].throw THEN 0 ELSE balLog[i].value])

Returned == pc = "done" /\ Len(addresses) > 0

C7_YieldIdentity ==
  Returned =>
    /\ totalMusdBU - net.total = BalanceLookedUp + GrossWithdrawn - GrossDeposited
    /\ result[1].yieldValue =
         toNumber(BalanceLookedUp + GrossWithdrawn - GrossDeposited, musdDec)

C7_Witness ==
  /\ Returned
  /\ GrossWithdrawn > 0
  /\ GrossDeposited > GrossWithdrawn
  /\ BalanceLookedUp > 0
  /\ musdDec = 2

\* ------------------------------------------------------------------
\* C8: the deposit field is the gross deposited total: one deposit of
\* 1000, one later withdrawal of 200 and a balance of 950 give
\* deposit = 1000, balance = 950, yieldValue = 150.
\* ------------------------------------------------------------------
C8_Scenario ==
  /\ Returned
  /\ musdDec = 0
  /\ addresses = <<"0xAA">>
  /\ ledger = <<WithId(EventPool[1], 1), WithId(EventPool[2], 2)>>
  /\ balLog = <<[owner |-> "0xAA", throw |-> FALSE, value |-> 950]>>

C8_DepositIsGross ==
  C8_Scenario =>
    /\ result[1].deposit = [num |-> 1000, exp |-> 0]
    /\ result[1].balance = [num |-> 950, exp |-> 0]
    /\ result[1].yieldValue = [num |-> 150, exp |-> 0]

\* ------------------------------------------------------------------
\* C9: with no tracked address getStats returns all zeros, issues no page
\* request, no balanceOf and no decimals() query and does not write the
\* decimals cache.
\* ------------------------------------------------------------------
C9_EmptyShortCircuit ==
  (pc = "done" /\ addresses = <<>>) =>
    /\ result = <<ZeroStats>>
    /\ io = NoIo
    /\ balLog = <<>>

C9_Witness ==
  /\ pc = "done"
  /\ addresses = <<>>
  /\ result = <<ZeroStats>>
  /\ decimalsEnv = Undefined
  /\ CacheKey \in DOMAIN decimalsCache

\* ------------------------------------------------------------------
\* C10: a failed balance lookup counts as 0 and aborts nothing: every
\* tracked address is looked up, in order, getStats returns a stats
\* object, and its balance is the sum of the lookups that succeeded.
\* ------------------------------------------------------------------
C10_BalanceFailureTolerated ==
  /\ pc = "failed" => balLog = <<>>
  /\ Len(balLog) <= Len(addresses)
  /\ \A k \in 1..Len(balLog) : balLog[k].owner = addresses[k]
  /\ Returned =>
       /\ Len(result) = 1
       /\ Len(balLog) = Len(addresses)
       /\ io.balance = Len(addresses)
       /\ result[1].balance = toNumber(BalanceLookedUp, musdDec)

C10_Witness ==
  /\ Returned
  /\ Len(balLog) = 2
  /\ balLog[1].throw
  /\ ~balLog[2].throw
  /\ balLog[2].value = 950
  /\ result[1].balance = toNumber(950, musdDec)

\* ------------------------------------------------------------------
\* C11: computeApyFromFlows calls the solver only if the series of the
\* ledger cashflows and the terminal entry (now, current balance) has a
\* strictly negative and a strictly positive amount; otherwise (deposits
\* only with a zero balance, withdrawals only, no cashflow) it returns 0
\* and the solver has not run.
\* ------------------------------------------------------------------
SeriesAmountsBU == [i \in 1..Len(xIn.flowsBU) |-> xIn.flowsBU[i].amountBU]
                     \o <<xIn.currentBalanceBU>>

MixedSigns ==
  /\ \E i \in 1..Len(SeriesAmountsBU) : SeriesAmountsBU[i] < 0
  /\ \E i \in 1..Len(SeriesAmountsBU) : SeriesAmountsBU[i] > 0

C11_SolverPrecondition ==
  xPc # "idle" =>
    /\ xCalls > 0 => MixedSigns
    /\ ~MixedSigns =>
         /\ xPc = "done"
         /\ xCalls = 0
         /\ xI = 0
         /\ xStats.apy = fZero(0)

\* deposits only and a balance of zero: 0 is returned, the solver has not run
C11_Witness ==
  /\ xPc = "done"
  /\ xCalls = 0
  /\ Len(xIn.flowsBU) = 2
  /\ \A i \in 1..2 : xIn.flowsBU[i].amountBU < 0
  /\ xIn.currentBalanceBU = 0
  /\ xStats.apy = fZero(0)

\* ------------------------------------------------------------------
\* C12: the solver stops after at most 100 turns of its loop; when it
\* stops without two successive rates closer than 1e-7 (it returns no
\* rate), or the rate is not finite, getStats returns apy = 0 with
\* deposit, balance and yieldValue as computed from the totals.
\* ------------------------------------------------------------------
NoRate == xRet.kind = "null" \/ ~isFinite(xRet.rate)

C12_SolverBounded ==
  /\ xI <= MAX_ITER
  /\ xPc = "loop" => xI < MAX_ITER
  /\ (xPc = "done" /\ xCalls > 0 /\ NoRate) =>
       LET deposited == toNumber(-SumAmounts(xIn.flowsBU), xIn.musdDecimals)
           balance == toNumber(xIn.currentBalanceBU, xIn.musdDecimals)
       IN xStats = [deposit |-> deposited, balance |-> balance,
                    yieldValue |-> toFixed10(Minus(balance, deposited)),
                    apy |-> fZero(0)]

\* the loop has made its 100 turns without converging: apy is 0, the
\* other fields are those of a deposit of 1000 and a balance of 700
C12_Witness ==
  /\ xPc = "done"
  /\ xI = MAX_ITER
  /\ xRet.kind = "null"
  /\ ~degenerate(xD)
  /\ xStats.apy = fZero(0)
  /\ xStats.deposit = toNumber(1000, 0)
  /\ xStats.balance = toNumber(700, 0)
  /\ xStats.yieldValue = toNumber(-300, 0)

\* ------------------------------------------------------------------
\* C13: an event whose amount string is not an integer is skipped: it
\* adds nothing to the gross deposit total, the gross withdrawal total
\* or the cashflow series and aborts nothing, and every other event, of
\* the same and of later pages, is counted with its full value.  An
\* event of amount zero adds no cashflow entry.
\* ------------------------------------------------------------------
Malformed(ev) == ev.value \notin {"0", "50", "200", "300", "1000"}

\* the events of the ledger of the given types whose party is address a
\* and whose amount is an integer
WellFormedOf(a, types, field) ==
  {ev \in Range(ledger) :
     /\ ev.type \in types
     /\ SameAddress(Party(ev, field), a)
     /\ ~Malformed(ev)}

RECURSIVE SumValues(_)
SumValues(evs) ==
  IF evs = {} THEN 0
  ELSE LET ev == CHOOSE x \in evs : TRUE
       IN EventValue(ev.value) + SumValues(evs \ {ev})

\* the entries that cashflowsForAddress is to return for address a
EntriesCounted(part, a) ==
  /\ \A e \in Range(part) : ~Malformed(e.op) /\ e.op.value # "0"
  /\ \A ev \in WellFormedOf(a, DepositTypes, "to") :
       ev.value # "0" =>
         Cardinality({i \in 1..Len(part) :
            part[i].op = ev /\ part[i].amountBU = 0 - EventValue(ev.value)}) = 1
  /\ \A ev \in WellFormedOf(a, WithdrawalTypes, "from") :
       ev.value # "0" =>
         Cardinality({i \in 1..Len(part) :
            part[i].op = ev /\ part[i].amountBU = EventValue(ev.value)}) = 1

C13_MalformedSkipped ==
  /\ \A e \in CashflowEntries : ~Malformed(e.op) /\ e.op.value # "0"
  /\ cf.phase = "done" =>
       \A i \in 1..Len(addresses) : EntriesCounted(cf.parts[i], addresses[i])
  /\ net.done =>
       LET a == addresses[net.j] IN
       /\ net.dep.sum = SumValues(WellFormedOf(a, DepositTypes, "to"))
       /\ net.wd.sum = SumValues(WellFormedOf(a, WithdrawalTypes, "from"))
  /\ (pc = "failed" /\ ~sawBadPage) => io.page = 0

\* a malformed deposit and a deposit of 1000, both to the tracked address:
\* getStats returns, the gross total and the series hold the 1000 alone
C13_Witness ==
  /\ Returned
  /\ net.done
  /\ \E ev \in Range(ledger) :
       /\ Malformed(ev)
       /\ ev.type \in DepositTypes
       /\ SameAddress(ev.to, addresses[net.j])
  /\ \E ev \in Range(ledger) :
       /\ ev.value = "0"
       /\ ev.type \in WithdrawalTypes
       /\ \E i \in 1..Len(addresses) : SameAddress(ev.from, addresses[i])
  /\ net.dep.sum = 1000
  /\ \E e \in Range(cf.all) : e.amountBU = -1000

\* ------------------------------------------------------------------
\* C14: toDate keeps a raw timestamp above 10^12 as milliseconds and
\* multiplies any other by 1000, for deposits and withdrawals alike;
\* the seconds value s and the milliseconds value 1000 * s of one instant
\* give the same date when 10^9 < s <= 10^12 (10^12 is MS_THRESHOLD).
\* ------------------------------------------------------------------
Normalized(created) ==
  IF created > MS_THRESHOLD THEN created ELSE 1000 * created

C14_ToDateNormalizes ==
  dSec # 0 =>
    /\ Len(dFlows) = 2
    /\ \A i \in 1..2 : dFlows[i].date = Normalized(dFlows[i].op.created)
    /\ {dFlows[i].op.created : i \in 1..2} = {dSec, 1000 * dSec}
    /\ (1000 * dSec > MS_THRESHOLD /\ dSec <= MS_THRESHOLD) =>
         \A i \in 1..2 : dFlows[i].date = 1000 * dSec

\* 1700000000 and 1700000000000 (170 and 170000 at the scale of the
\* model), the deposit in seconds and the withdrawal in milliseconds
C14_Witness ==
  /\ dSec = 170
  /\ dFlows[1].op.type = "deposit"
  /\ dFlows[1].op.created = 170
  /\ dFlows[2].op.created = 170000
  /\ dFlows[1].date = 170000
  /\ dFlows[2].date = 170000

\* C14 as stated: the seconds value and the milliseconds value of any one
\* instant give the same date
C14_SameInstantSameDate ==
  dSec # 0 => dFlows[1].date = dFlows[2].date

\* ------------------------------------------------------------------
\* C15: for every ledger and address list sumNetDepositsForAddresses is
\* sumGrossDepositsForAddresses minus sumGrossWithdrawalsForAddresses (it
\* may be negative), and the three results are the same for every order
\* of the address list and every order in which the ledger recorded the
\* events, hence every order of the events within the pages.
\* ------------------------------------------------------------------
C15_NetIsGrossDifference ==
  sIn # <<>> =>
    /\ sOut.net = sOut.dep - sOut.wd
    /\ sOutPerm = sOut

\* withdrawals exceed deposits, two addresses swapped, and a page of the
\* second ledger holds two events the other way round
C15_Witness ==
  /\ sIn # <<>>
  /\ sOut.net < 0
  /\ sOut.wd > 0
  /\ Len(sIn.addresses) = 2
  /\ sPerm.addresses # sIn.addresses
  /\ Len(sIn.ledger) = 3
  /\ sPerm.ledger # sIn.ledger

\* ------------------------------------------------------------------
\* C16: getDecimals resolves in a fixed priority. A call with a numeric
\* override returns it, queries nothing and leaves the cache as it was; a
\* call without one returns the entry cached for the lowercased token when
\* there is one, with no query; else it queries once and, when the query
\* answers, stores and returns the answer. After a call that resolved a
\* token by a query, no later call for that token in any letter case
\* queries, and a call whose query failed leaves the cache as it was.
GdKey(e) == toLowerCase(e.token)
GdAsClaimed(e) ==
  IF e.envOverride # Undefined
    THEN /\ e.out = "return"
         /\ e.ret = Number(e.envOverride)
         /\ e.queries = 0
         /\ e.after = e.before
  ELSE IF GdKey(e) \in DOMAIN e.before
    THEN /\ e.out = "return"
         /\ e.ret = e.before[GdKey(e)]
         /\ e.queries = 0
         /\ e.after = e.before
  ELSE /\ e.queries = 1
       /\ e.out = "return" => e.after = cacheSet(e.before, GdKey(e), e.ret)
       /\ e.out = "throw" => e.after = e.before
C16_FixedPriority ==
  /\ \A i \in 1..Len(gdLog) : GdAsClaimed(gdLog[i])
  /\ \A i, j \in 1..Len(gdLog) :
       (/\ i < j
        /\ gdLog[i].out = "return"
        /\ gdLog[i].queries = 1
        /\ GdKey(gdLog[j]) = GdKey(gdLog[i])) => gdLog[j].queries = 0

\* ------------------------------------------------------------------
\* C17: when getStats throws inside the /stats handler, the handler
\* catches the error: the only reply it sends is the generic failure text,
\* once, it sends no stats message, and it does not reject with the error
\* of getStats.
C17_StatsFailureReported ==
  hStats = Threw =>
    /\ hPc \in {"replyCaught", "ended"}
    /\ hReplies = <<FailedReply>>
    /\ \A i \in 1..Len(hReplies) : ~IsStatsReply(hReplies[i])
    /\ hThrown # "getStats"
C17_Witness ==
  /\ hStats = Threw
  /\ hPc = "ended"
  /\ hThrown = "none"
  /\ hReplies = <<FailedReply>>
  /\ Len(hAddrs) > 0

\* ------------------------------------------------------------------
\* C18: with the registry operations run one after another, after
\* addAddress(chat, a) the list of the chat holds a exactly once (and is
\* the list of before when a was tracked already), after
\* removeAddress(chat, a) it does not hold a, and no operation changes the
\* list of another chat.
Occurrences(list, a) == Cardinality({i \in 1..Len(list) : list[i] = a})
C18_RegistryOperations ==
  /\ rLast.op = "add" =>
       /\ Occurrences(listAddresses(addrRows, rLast.chat), rLast.address) = 1
       /\ rLast.address \in Range(rLast.before[rLast.chat]) => addrRows = rLast.before
  /\ rLast.op = "remove" =>
       rLast.address \notin Range(listAddresses(addrRows, rLast.chat))
  /\ rLast.op # "none" =>
       \A c \in RegChats \ {rLast.chat} :
         listAddresses(addrRows, c) = listAddresses(rLast.before, c)
C18_Witness ==
  /\ rLast.op = "add"
  /\ rLast.address \in Range(rLast.before[rLast.chat])
  /\ Len(addrRows[rLast.chat]) = MaxAddrs
  /\ \E c \in RegChats \ {rLast.chat} :
       /\ Len(addrRows[c]) > 0
       /\ rLast.address \notin Range(addrRows[c])

\* ------------------------------------------------------------------
\* C19: for a single deposit of X at t0 and a balance of X*(1+r) one year
\* later, r in {0.05, 0.2, 1.0, -0.3}, xirr started from 0.2 returns a
\* rate within 1e-6 of r when X is 1000; when X is 1e-15 (1000 base units
\* at 18 decimals) the first derivative estimate is below 1e-12, the loop
\* breaks at its first turn, xirr returns null and apy is 0.
OneYear(in) ==
  /\ in # <<>>
  /\ in.flowsBU = <<[date |-> 0, amountBU |-> -1000]>>
  /\ in.now = 2
  /\ in.currentBalanceBU \in {1050, 1200, 2000, 700}
\* r of X*(1+r) = currentBalanceBU, X = 1000 base units
rateOf(in) == fDiv(fromInt(in.currentBalanceBU - 1000), fromInt(1000))
SanityTol == fDiv(ONE, fromInt(1000000))
Within(x, r) == fLt(fAbs(fSub(x, r)), SanityTol)
C19_OneYearSanity ==
  (xPc = "done" /\ OneYear(xIn)) =>
    IF xIn.musdDecimals = 0
      THEN xRet.kind = "rate" /\ Within(xRet.rate, rateOf(xIn))
      ELSE /\ xRet.kind = "null"
           /\ xI = 1
           /\ degenerate(xD)
           /\ xStats.apy = fZero(0)
\* the statement for every X
C19_AlwaysWithin ==
  (xPc = "done" /\ OneYear(xIn)) =>
    xRet.kind = "rate" /\ Within(xRet.rate, rateOf(xIn))
\* the loss of 30%: seven turns from the guess 0.2
C19_Witness ==
  /\ xPc = "done"
  /\ OneYear(xIn)
  /\ xIn.musdDecimals = 0
  /\ xIn.currentBalanceBU = 700
  /\ xI > 1
  /\ xRet.kind = "rate"
  /\ Within(xRet.rate, rateOf(xIn))
  /\ xStats.apy = xRet.rate

\* ------------------------------------------------------------------
\* C20: xirr aborts, with no solution and apy = 0, at the first turn
\* whose derivative estimate is below 1e-12 in magnitude or is not finite,
\* and it never returns as converged a rate of a turn that divided by
\* such an estimate.
C20_AbortsOnBadDerivative ==
  /\ (xI > 0 /\ degenerateOrNonFinite(xD)) =>
       /\ xPc = "done"
       /\ xRet.kind = "null"
       /\ xStats.apy = fZero(0)
  /\ (xPc = "done" /\ xRet.kind = "rate") => ~degenerateOrNonFinite(xD)

\* ------------------------------------------------------------------
\* C22: in getStats the cashflow fetch and the totals fetch are both
\* started before either has finished, whatever the order in which their
\* pages arrive; no balance query is issued and no stats object is
\* assembled until both are complete; a page failure of either makes
\* getStats fail.
\* ------------------------------------------------------------------
BothStarted == cf.phase # "off" /\ net.j >= 1
BothComplete == cf.phase = "done" /\ net.done

C22_FetchesJoined ==
  /\ pc = "fetch" => BothStarted /\ ~BothComplete /\ io.page >= 3
  /\ (cf.phase = "done" \/ net.done) => BothStarted
  /\ (pc = "balances" \/ Returned) => BothComplete
  /\ (io.balance > 0 \/ balLog # <<>>) => BothComplete
  /\ (Len(addresses) > 0 /\ result # <<>>) => BothComplete
  /\ sawBadPage => (pc = "failed" /\ result = <<>> /\ io.balance = 0)

\* the cashflow fetch is complete, the totals fetch is not: getStats waits
C22_Witness ==
  /\ pc = "fetch"
  /\ cf.phase = "done"
  /\ cf.all # <<>>
  /\ ~net.done
  /\ net.wd.it.live
  /\ io.balance = 0
  /\ result = <<>>

\* ------------------------------------------------------------------
\* C21: in every execution, also when getStats calls overlap while the
\* cache is empty and no override is configured, the decimals cache entry
\* of a token is written at most once, and once present it is never
\* changed or removed.
\* ------------------------------------------------------------------
WritesOf(key) == {i \in 1..Len(cacheLog) : cacheLog[i].key = key}

C21_WrittenOnce ==
  /\ \A key \in {toLowerCase(t) : t \in Tokens} : Cardinality(WritesOf(key)) <= 1
  /\ \A i \in 1..Len(cacheLog) :
       /\ cacheLog[i].key \in DOMAIN decimalsCache
       /\ decimalsCache[cacheLog[i].key] = cacheLog[i].dec

\* ------------------------------------------------------------------
\* C23: when the tracked addresses (at least one) have no ledger event
\* and their balances come to zero, getStats returns deposit = 0,
\* balance = 0, yieldValue = 0, apy = 0, and it has still made one
\* balanceOf query per tracked address, none of them before the ledger
\* fetches were complete.
\* ------------------------------------------------------------------
\* no deposit or withdrawal of the ledger has a tracked address as party
NoTrackedEvents ==
  \A i \in 1..Len(ledger), k \in 1..Len(addresses) :
    /\ ledger[i].type \in DepositTypes =>
         ~SameAddress(ledger[i].to, addresses[k])
    /\ ledger[i].type \in WithdrawalTypes =>
         ~SameAddress(ledger[i].from, addresses[k])

C23_NoEventsStillQueried ==
  /\ (Len(addresses) > 0 /\ NoTrackedEvents /\ io.balance > 0) =>
       BothComplete /\ cf.all = <<>> /\ net.total = 0
  /\ (Returned /\ NoTrackedEvents /\ BalanceLookedUp = 0) =>
       /\ result = <<ZeroStats>>
       /\ io.balance = Len(addresses)
       /\ Len(balLog) = Len(addresses)
       /\ \A k \in 1..Len(balLog) : balLog[k].owner = addresses[k]

\* two tracked addresses, a ledger that holds events of others only and
\* an upstream that leaves the address filter to the client
C23_Witness ==
  /\ Returned
  /\ NoTrackedEvents
  /\ BalanceLookedUp = 0
  /\ ledger # <<>>
  /\ ~upstreamStrict
  /\ io.page > 3
  /\ io.balance = 1
  /\ Len(balLog) = 1
  /\ result = <<ZeroStats>>

\* ------------------------------------------------------------------
\* C25: for every address list that /add and /remove can produce, each
\* ledger event contributes at most once to the cashflow series and to
\* the totals of one getStats result, and each on-chain balance is added
\* at most once, also when an address was added twice in different
\* letter case.
\* ------------------------------------------------------------------
\* the tracked addresses as accounts: one string per address
RECURSIVE Accounts(_)
Accounts(addrs) ==
  IF addrs = <<>> THEN <<>>
  ELSE LET rest == Accounts(SubSeq(addrs, 1, Len(addrs) - 1))
       IN IF toLowerCase(Last(addrs)) \in Range(rest) THEN rest
          ELSE Append(rest, toLowerCase(Last(addrs)))

NetOfAccounts ==
  SumSeq([i \in 1..Len(Accounts(addresses)) |->
            GrossOfAddress(Accounts(addresses)[i], DepositTypes, "to")
            - GrossOfAddress(Accounts(addresses)[i], WithdrawalTypes, "from")])

EntriesOf(e) == {i \in 1..Len(cf.all) : cf.all[i].op = e}

C25_CountedOnce ==
  Returned =>
    /\ \A i \in 1..Len(ledger) : Cardinality(EntriesOf(ledger[i])) <= 1
    /\ net.total = NetOfAccounts
    /\ \A i, j \in 1..Len(balLog) :
         i # j => toLowerCase(balLog[i].owner) # toLowerCase(balLog[j].owner)

\* ------------------------------------------------------------------
\* C27: getStats and listAddresses are read-only with respect to the
\* registry: for every chat id, known or not yet known, the user rows and
\* the address rows are after the call what they were before it.
\* ------------------------------------------------------------------
C27_ReadOnly ==
  rLast.op \in {"list", "stats"} =>
    /\ addrRows = rLast.before
    /\ userRows = rLast.users

\* ------------------------------------------------------------------
\* C28: when registry operations for one chat overlap (two addAddress
\* calls with the same address, two ensureUser calls for a chat id not
\* yet stored), every one of them completes without error, and afterwards
\* there is exactly one user row for the chat and exactly one address row
\* for the pair (chat, address).
\* ------------------------------------------------------------------
C28_OverlapsComplete ==
  \A w \in Workers :
    /\ regOp[w].pc # "error"
    /\ regOp[w].pc = "done" =>
         /\ regOp[w].chat \in userRows
         /\ regOp[w].op = "addAddress" =>
              Occurrences(addrRows[regOp[w].chat], regOp[w].address) = 1

\* ------------------------------------------------------------------
\* C24: within one process bot.launch() is started at most once, for any
\* number of safeLaunch calls in any interleaving, also when two services
\* reach safeLaunch before either launch has completed; a safeLaunch after
\* a successful launch returns without launching.
\* ------------------------------------------------------------------
Launches == {s \in Services : "launch" \in Range(tg[s].calls)}

C24_LaunchedOnce ==
  /\ Cardinality(Launches) <= 1
  /\ \A s \in Services : tg[s].pc = "skipped" => BOT_LAUNCHED

\* ------------------------------------------------------------------
\* C29: during bootstrap the error catcher and, in development, the trace
\* middleware are installed first and the command handlers are registered
\* right after them, before any call to Telegram; when Telegram is
\* disabled neither deleteWebhook nor bot.launch is ever called; when it
\* is enabled, deleteWebhook is attempted before safeLaunch, and so before
\* bot.launch, and a failure of deleteWebhook does not keep bootstrap from
\* safeLaunch, which calls bot.launch unless BOT_LAUNCHED is set.
\* ------------------------------------------------------------------
IndexOf(calls, c) == CHOOSE i \in 1..Len(calls) : calls[i] = c
Built(t) == t.pc # "none"
TelegramCalls == {"deleteWebhook", "launch"}

\* what bootstrap does before it registers the handlers
Preliminaries(t) == IF t.isDev THEN <<"catch", "use">> ELSE <<"catch">>

C29_BootstrapOrder ==
  \A s \in Services :
    Built(tg[s]) =>
      /\ IsPrefix(Append(Preliminaries(tg[s]), "registerHandlers"), tg[s].calls)
      /\ ~tg[s].telegramEnabled =>
           /\ tg[s].pc = "returned"
           /\ Range(tg[s].calls) \cap TelegramCalls = {}
      /\ tg[s].telegramEnabled =>
           /\ "deleteWebhook" \in Range(tg[s].calls)
           /\ "launch" \in Range(tg[s].calls) =>
                IndexOf(tg[s].calls, "deleteWebhook") < IndexOf(tg[s].calls, "launch")
      /\ tg[s].webhook = "failed" =>
           \/ "launch" \in Range(tg[s].calls)
           \/ tg[s].pc = "skipped" /\ BOT_LAUNCHED

\* the statement with the handlers registered before anything else
C29_HandlersFirst ==
  \A s \in Services :
    Built(tg[s]) =>
      /\ tg[s].calls[1] = "registerHandlers"
      /\ ~tg[s].telegramEnabled => Range(tg[s].calls) \cap TelegramCalls = {}
      /\ ("launch" \in Range(tg[s].calls)) =>
           IndexOf(tg[s].calls, "deleteWebhook") < IndexOf(tg[s].calls, "launch")
      /\ tg[s].webhook = "failed" =>
           \/ "launch" \in Range(tg[s].calls)
           \/ tg[s].pc = "skipped" /\ BOT_LAUNCHED

\* a development service whose deleteWebhook failed and whose launch
\* succeeded, next to a disabled one
C29_Witness ==
  \E s, d \in Services :
    /\ tg[s].webhook = "failed"
    /\ tg[s].pc = "launched"
    /\ tg[s].calls = <<"catch", "use", "registerHandlers", "deleteWebhook", "launch">>
    /\ Built(tg[d])
    /\ ~tg[d].telegramEnabled
    /\ ~tg[d].isDev
    /\ tg[d].calls = <<"catch", "registerHandlers">>

\* ------------------------------------------------------------------
\* C26: in every getStats result the two ledger views agree: the signed
\* cashflow amounts handed to the solver sum to grossWithdrawn -
\* grossDeposited as used for deposit and yieldValue, also when events
\* are appended to the ledger while the two fetches of the call run.
\* ------------------------------------------------------------------
C26_ViewsAgree ==
  Returned =>
    /\ SumAmounts(cf.all) = -net.total
    /\ result[1].deposit = toNumber(net.total, musdDec)

====
